---------------------------- MODULE Spec2Model ----------------------------
(***************************************************************************)
(* A model of the telemetry service of SNM-network-monitor:                *)
(*   electron/telemetry/telemetryServer.ts  (TelemetryServer)              *)
(*   electron/telemetry/sampler.ts          (NetworkSampler, generators)   *)
(*   electron/telemetry/adapters.ts         (RollingStats, makeAlert)      *)
(*                                                                         *)
(* Everything runs on one event loop, so every handler is one atomic       *)
(* action.  Wall-clock time is the variable clock; it moves over a finite  *)
(* grid of instants chosen per specification.                              *)
(*                                                                         *)
(* Abstractions, stated once:                                              *)
(*  - sha1(...).slice(0, n) is taken to be injective on the strings the    *)
(*    model hashes: an id is the hashed string itself (a sequence of       *)
(*    characters for a flow, the joined fields for an alert).              *)
(*  - a synthetic burst holds 1..MaxBurst samples (50..180 in the code),   *)
(*    drawn from a finite subset of the generator's pools.                 *)
(*  - the spike test compares exact rationals; the code uses doubles.      *)
(*  - the z-score text inside a spike alert's detail is left out (it is a  *)
(*    function of bytesPerSec and the window, which the model keeps).      *)
(***************************************************************************)
EXTENDS Integers, Sequences, FiniteSets, TLC

VARIABLES
    clock,               \* Date.now()
    \* ---- TelemetryServer fields
    clients,             \* Set<WebSocket>
    mode,                \* 'live' | 'simulate' (whatever a client sent)
    selectedAdapterName,
    flows,               \* Map<string, Flow>, in insertion order
    alerts,              \* Alert[], newest first
    series,              \* StatsPoint[]
    bytesRolling,        \* RollingStats(60).values
    lastTickAt,
    tickBytes,
    tickPackets,
    seenDstPorts,
    lastPortsAlertAt,
    ticker,              \* TRUE while the setInterval timer is armed
    wssOpen,             \* TRUE while the WebSocketServer accepts connections
    \* ---- NetworkSampler fields and the mechanisms it started
    options,             \* this.options: [mode, adapterName]
    stopFn,              \* 0 (undefined) or the index in mechs of the generator it stops
    mechs,               \* every mechanism ever started: [kind, running]
    pending,             \* restart() calls suspended at `await tryStartCapTraffic`
    \* ---- observation of the last handler that ran
    lastOp,              \* which handler ran last
    lastArg,             \* its input (client message, attempt outcome, mechanism)
    sent,                \* the messages it wrote, in order: [to, type, data]
    threw,               \* TRUE when an error escaped it
    statusCalls,         \* the onStatus callbacks it made, in order
    pruned,              \* the flows it deleted from the table
    \* ---- history
    acc,                 \* per FlowKey: bytes and count of the samples ingested since its last eviction
    everPorts,           \* the destination ports of all samples ever ingested
    sinceTick,           \* bytes and count of the samples ingested since the latest tick
    stale,               \* mechanisms that were started before the latest restart() began
    tickTimes            \* the timestamps of all ticks so far

vars == <<clock, clients, mode, selectedAdapterName, flows, alerts, series,
          bytesRolling, lastTickAt, tickBytes, tickPackets, seenDstPorts,
          lastPortsAlertAt, ticker, wssOpen, options, stopFn, mechs, pending,
          lastOp, lastArg, sent, threw, statusCalls, pruned, acc, everPorts,
          sinceTick, stale, tickTimes>>

serverVars == <<clients, mode, selectedAdapterName, flows, alerts, series,
                bytesRolling, lastTickAt, tickBytes, tickPackets, seenDstPorts,
                lastPortsAlertAt, ticker, wssOpen>>

samplerVars == <<options, stopFn, mechs, pending>>

-----------------------------------------------------------------------------
(* Program constants *)

TICK_MS == 1000
IDLE_MS == 60000
SERIES_CAP == 120
ALERTS_CAP == 100
ROLLING_WINDOW == 60
ROLLING_MIN_WINDOW == 5
WARMUP_POINTS == 10
PORT_ALERT_GAP_MS == 10000
ADAPTERS_PERIOD_MS == 10000
TOP_TALKERS == 8
TOP_FLOWS == 200

(* Bounds of the model *)

T0 == 20000              \* the time of construction
MaxBurst == 1            \* samples in one synthetic burst
MaxPerTick == 1          \* samples the mechanisms deliver between two ticks
MaxMechs == 3            \* mechanisms started or being started in one run
MainTicks == 1           \* tick instants of the main specification
SeriesTicks == 122       \* tick instants of the series specification
SeriesTrafficTicks == 2  \* ticks after which the series specification has no more traffic
SpikeTicks == 11         \* tick instants of the spike specification

Undefined == "undefined"

\* The sockets of a specification with a single viewer.
OneSocket == {1}

\* Two viewers.
TwoSockets == {1, 2}

\* Sockets whose ws.send throws on every write.
BrokenSockets == {3}

\* A viewer and a socket whose writes fail.
SoundAndBroken == {1} \cup BrokenSockets

-----------------------------------------------------------------------------
(* Small helpers *)

Max(a, b) == IF a >= b THEN a ELSE b
Min(a, b) == IF a <= b THEN a ELSE b

\* Math.round(a / b) for a >= 0, b > 0: halves round up.
\* A plausible slip: the quotient truncated.
RoundDivFloor(a, b) == a \div b

RoundDiv(a, b) == (2 * a + b) \div (2 * b)

\* a * b >= c * d for naturals, without forming the products.
RECURSIVE GeProd(_, _, _, _)
GeProd(a, b, c, d) ==
    IF c = 0 \/ d = 0 THEN TRUE
    ELSE IF a = 0 \/ b = 0 THEN FALSE
    ELSE LET q1 == a \div c
             q2 == d \div b
             r1 == a % c
             r2 == d % b
         IN IF q1 > q2 THEN TRUE
            ELSE IF q1 < q2 THEN FALSE
            ELSE IF r2 = 0 THEN TRUE
            ELSE IF r1 = 0 THEN FALSE
            ELSE GeProd(b, r1, r2, c)

RECURSIVE SumSeq(_)
SumSeq(s) == IF s = <<>> THEN 0 ELSE Head(s) + SumSeq(Tail(s))

RECURSIVE SumSq(_)
SumSq(s) == IF s = <<>> THEN 0 ELSE Head(s) * Head(s) + SumSq(Tail(s))

\* The decimal digits of a natural, as `${n}` prints them.
RECURSIVE Digits(_)
Digits(n) ==
    LET d == <<"0", "1", "2", "3", "4", "5", "6", "7", "8", "9">>
    IN IF n < 10 THEN <<d[n + 1]>> ELSE Digits(n \div 10) \o <<d[(n % 10) + 1]>>

RECURSIVE Concat(_)
Concat(ss) == IF ss = <<>> THEN <<>> ELSE Head(ss) \o Concat(Tail(ss))

Range(s) == {s[i] : i \in 1..Len(s)}


\* The members of a set of integers, ascending.
RECURSIVE SetToSeq(_)
SetToSeq(S) ==
    IF S = {} THEN <<>>
    ELSE LET m == CHOOSE x \in S : \A y \in S : x <= y
         IN <<m>> \o SetToSeq(S \ {m})

-----------------------------------------------------------------------------
(* Packet samples *)

\* Addresses are strings: sequences of characters.
Ip_10_0_0_10 == <<"1", "0", ".", "0", ".", "0", ".", "1", "0">>
Ip_10_0_0_12 == <<"1", "0", ".", "0", ".", "0", ".", "1", "2">>
Ip_1_1_1_1 == <<"1", ".", "1", ".", "1", ".", "1">>
Ip_8_8_8_8 == <<"8", ".", "8", ".", "8", ".", "8">>

\* What one iteration of the generator's loop can hand to onPacket, over the
\* given pools: UDP to port 53, TCP otherwise.
SimulatedSamples(srcIps, dstIps, dstPorts, srcPorts, sizes) ==
    {[protocol |-> IF dp = 53 THEN "UDP" ELSE "TCP",
      srcIp |-> si, srcPort |-> sp, dstIp |-> di, dstPort |-> dp, bytes |-> b] :
        si \in srcIps, di \in dstIps, dp \in dstPorts, sp \in srcPorts, b \in sizes}

\* What the capture listener can hand to onPacket for a frame of nbytes:
\* TCP or UDP with the decoded ports, anything else as OTHER with ports 0.
CapturedSamples(srcIps, dstIps, ports, sizes) ==
    {[protocol |-> pr, srcIp |-> si, srcPort |-> IF pr = "OTHER" THEN 0 ELSE pt,
      dstIp |-> di, dstPort |-> IF pr = "OTHER" THEN 0 ELSE pt, bytes |-> b] :
        pr \in {"TCP", "UDP", "OTHER"}, si \in srcIps, di \in dstIps,
        pt \in ports, b \in sizes}

\* Bursts of 1..MaxBurst samples.
Bursts(samples) ==
    UNION {[1..n -> samples] : n \in 1..MaxBurst}

FlowKeyOf(p) ==
    [protocol |-> p.protocol, srcIp |-> p.srcIp, srcPort |-> p.srcPort,
     dstIp |-> p.dstIp, dstPort |-> p.dstPort]

\* A plausible slip: the source port left out of the hashed string.
StableFlowIdNoSrcPort(flow) ==
    Concat(<< <<flow.protocol, "|">>, flow.srcIp, <<"|">>, flow.dstIp,
              <<":">>, Digits(flow.dstPort) >>)

\* `${protocol}|${srcIp}:${srcPort}|${dstIp}:${dstPort}`, then hashed.
StableFlowId(flow) ==
    Concat(<< <<flow.protocol, "|">>, flow.srcIp, <<":">>, Digits(flow.srcPort),
              <<"|">>, flow.dstIp, <<":">>, Digits(flow.dstPort) >>)

\* `${protocol} ${srcIp}:${srcPort} -> ${dstIp}:${dstPort}`
FlowKeyToString(f) ==
    Concat(<< <<f.protocol, " ">>, f.srcIp, <<":">>, Digits(f.srcPort),
              <<" -> ">>, f.dstIp, <<":">>, Digits(f.dstPort) >>)

-----------------------------------------------------------------------------
(* Alerts and sending *)

\* id = sha1(`${ts}|${severity}|${title}|${detail ?? ''}`).slice(0, 12)
MakeAlert(severity, title, detail, ts) ==
    [id |-> Digits(ts) \o <<"|", severity, "|", title, "|">> \o detail,
     ts |-> ts, severity |-> severity, title |-> title, detail |-> detail]

\* send(ws, msg): one write; ws.send throwing is caught, and nothing is written.
Send(ws, type, data) ==
    IF ws \in BrokenSockets THEN <<>> ELSE <<[to |-> ws, type |-> type, data |-> data]>>

\* A plausible slip: one try around the whole loop, and a failing session
\* first in the set.
BroadcastOneTry(cl, type, data) ==
    LET to == SetToSeq(cl)
    IN IF cl \cap BrokenSockets # {} THEN <<>>
       ELSE [i \in 1..Len(to) |-> [to |-> to[i], type |-> type, data |-> data]]

\* A plausible slip: the message written to one session only.
BroadcastFirstOnly(cl, type, data) ==
    LET to == SetToSeq(cl \ BrokenSockets)
    IN [i \in 1..Min(1, Len(to)) |-> [to |-> to[i], type |-> type, data |-> data]]

\* broadcast(msg): one write per registered session, each in its own try; a
\* write that throws is caught and the loop goes on.
Broadcast(cl, type, data) ==
    LET to == SetToSeq(cl \ BrokenSockets)
    IN [i \in 1..Len(to) |-> [to |-> to[i], type |-> type, data |-> data]]

\* The part of the server a packet or an alert touches, as one record.
\* out collects the messages written so far by the running handler.
ServerNow ==
    [flows |-> flows, alerts |-> alerts, seenDstPorts |-> seenDstPorts,
     lastPortsAlertAt |-> lastPortsAlertAt, tickBytes |-> tickBytes,
     tickPackets |-> tickPackets, acc |-> acc, ever |-> everPorts,
     since |-> sinceTick, out |-> <<>>,
     status |-> <<>>]

\* A plausible slip: the alert is listed and not written to the sessions.
PushAlertQuiet(s, cl, alert) ==
    IF \E i \in 1..Len(s.alerts) : s.alerts[i].id = alert.id
    THEN s
    ELSE LET a1 == <<alert>> \o s.alerts
         IN [s EXCEPT !.alerts = IF Len(a1) > ALERTS_CAP
                                 THEN SubSeq(a1, 1, Len(a1) - 1) ELSE a1]

\* A plausible slip: the list never drops its oldest alert.
PushAlertNoCap(s, cl, alert) ==
    IF \E i \in 1..Len(s.alerts) : s.alerts[i].id = alert.id
    THEN s
    ELSE LET a1 == <<alert>> \o s.alerts
         IN [s EXCEPT !.alerts = a1, !.out = @ \o Broadcast(cl, "alerts", a1)]

\* A plausible slip: no lookup of the id before the insertion.
PushAlertNoDedup(s, cl, alert) ==
    LET a1 == <<alert>> \o s.alerts
        a2 == IF Len(a1) > ALERTS_CAP THEN SubSeq(a1, 1, Len(a1) - 1) ELSE a1
    IN [s EXCEPT !.alerts = a2, !.out = @ \o Broadcast(cl, "alerts", a2)]

\* pushAlert(alert): dedup by id, unshift, pop over 100, broadcast.
PushAlert(s, cl, alert) ==
    IF \E i \in 1..Len(s.alerts) : s.alerts[i].id = alert.id
    THEN s
    ELSE LET a1 == <<alert>> \o s.alerts
             a2 == IF Len(a1) > ALERTS_CAP THEN SubSeq(a1, 1, Len(a1) - 1) ELSE a1
         IN [s EXCEPT !.alerts = a2,
                      !.out = @ \o Broadcast(cl, "alerts", a2)]

\* The constructor's onStatus callback.
OnStatus(s, cl, using, message, ts) ==
    LET s1 == [s EXCEPT !.status = Append(@, [using |-> using, message |-> message])]
        upper == IF using = "cap" THEN "CAP" ELSE "SIMULATE"
    IN IF message # ""
       THEN PushAlert(s1, cl, MakeAlert("info", "Capture status",
                                         <<upper, ": ", message>>, ts))
       ELSE s1

FlowIndex(fl, id) ==
    IF \E i \in 1..Len(fl) : fl[i].id = id
    THEN CHOOSE i \in 1..Len(fl) : fl[i].id = id
    ELSE 0

\* The history of ingested samples per FlowKey (not program state).
AccAdd(a, p) ==
    LET k == FlowKeyOf(p)
    IN [x \in DOMAIN a \cup {k} |->
          IF x = k
          THEN IF k \in DOMAIN a
               THEN [bytes |-> a[k].bytes + p.bytes, packets |-> a[k].packets + 1]
               ELSE [bytes |-> p.bytes, packets |-> 1]
          ELSE a[x]]

\* A plausible slip: packet ingestion also evicting idle flows.
OnPacketEvicting(s, cl, p, ts) ==
    LET id == StableFlowId(p)
        kept == SelectSeq(s.flows, LAMBDA f : ts - f.lastSeen <= TICK_MS \/ f.id = id)
        i == FlowIndex(kept, id)
        fl == IF i # 0
              THEN [kept EXCEPT ![i].bytes = @ + p.bytes, ![i].packets = @ + 1,
                                ![i].lastSeen = ts]
              ELSE Append(kept, [id |-> id, protocol |-> p.protocol, srcIp |-> p.srcIp,
                                 srcPort |-> p.srcPort, dstIp |-> p.dstIp,
                                 dstPort |-> p.dstPort, bytes |-> p.bytes,
                                 packets |-> 1, firstSeen |-> ts, lastSeen |-> ts])
    IN [s EXCEPT !.flows = fl, !.tickBytes = @ + p.bytes, !.tickPackets = @ + 1,
                 !.acc = AccAdd(@, p), !.ever = @ \cup {p.dstPort},
                 !.since = [bytes |-> @.bytes + p.bytes, packets |-> @.packets + 1]]

\* A plausible slip: the notification is emitted at exactly 10,000 ms too.
OnPacketGapInclusive(s, cl, p, ts) ==
    LET id == StableFlowId(p)
        i == FlowIndex(s.flows, id)
        s1 == IF i # 0
              THEN [s EXCEPT !.flows[i].bytes = @ + p.bytes,
                             !.flows[i].packets = @ + 1,
                             !.flows[i].lastSeen = ts]
              ELSE LET s2 == [s EXCEPT !.flows = Append(@,
                                 [id |-> id, protocol |-> p.protocol, srcIp |-> p.srcIp,
                                  srcPort |-> p.srcPort, dstIp |-> p.dstIp,
                                  dstPort |-> p.dstPort, bytes |-> p.bytes,
                                  packets |-> 1, firstSeen |-> ts, lastSeen |-> ts])]
                   IN IF p.dstPort \notin s2.seenDstPorts /\ p.dstPort # 0
                      THEN LET s3 == [s2 EXCEPT !.seenDstPorts = @ \cup {p.dstPort}]
                           IN IF ts - s3.lastPortsAlertAt >= PORT_ALERT_GAP_MS
                              THEN PushAlert([s3 EXCEPT !.lastPortsAlertAt = ts], cl,
                                       MakeAlert("info", "New destination port observed",
                                           <<"Port ">> \o Digits(p.dstPort)
                                             \o <<" seen in ">> \o FlowKeyToString(p),
                                           ts))
                              ELSE s3
                      ELSE s2
    IN [s1 EXCEPT !.tickBytes = @ + p.bytes, !.tickPackets = @ + 1,
                  !.acc = AccAdd(@, p), !.ever = @ \cup {p.dstPort},
                 !.since = [bytes |-> @.bytes + p.bytes, packets |-> @.packets + 1]]

\* A plausible slip: a port is recorded as seen only when it is notified.
OnPacketSeenOnAlert(s, cl, p, ts) ==
    LET id == StableFlowId(p)
        i == FlowIndex(s.flows, id)
        s1 == IF i # 0
              THEN [s EXCEPT !.flows[i].bytes = @ + p.bytes,
                             !.flows[i].packets = @ + 1,
                             !.flows[i].lastSeen = ts]
              ELSE LET s2 == [s EXCEPT !.flows = Append(@,
                                 [id |-> id, protocol |-> p.protocol, srcIp |-> p.srcIp,
                                  srcPort |-> p.srcPort, dstIp |-> p.dstIp,
                                  dstPort |-> p.dstPort, bytes |-> p.bytes,
                                  packets |-> 1, firstSeen |-> ts, lastSeen |-> ts])]
                   IN IF p.dstPort \notin s2.seenDstPorts /\ p.dstPort # 0
                      THEN LET s3 == s2
                           IN IF ts - s3.lastPortsAlertAt > PORT_ALERT_GAP_MS
                              THEN PushAlert([s3 EXCEPT !.lastPortsAlertAt = ts,
                                                        !.seenDstPorts = @ \cup {p.dstPort}], cl,
                                       MakeAlert("info", "New destination port observed",
                                           <<"Port ">> \o Digits(p.dstPort)
                                             \o <<" seen in ">> \o FlowKeyToString(p),
                                           ts))
                              ELSE s3
                      ELSE s2
    IN [s1 EXCEPT !.tickBytes = @ + p.bytes, !.tickPackets = @ + 1,
                  !.acc = AccAdd(@, p), !.ever = @ \cup {p.dstPort},
                 !.since = [bytes |-> @.bytes + p.bytes, packets |-> @.packets + 1]]

OnPacket(s, cl, p, ts) ==
    LET id == StableFlowId(p)
        i == FlowIndex(s.flows, id)
        s1 == IF i # 0
              THEN [s EXCEPT !.flows[i].bytes = @ + p.bytes,
                             !.flows[i].packets = @ + 1,
                             !.flows[i].lastSeen = ts]
              ELSE LET s2 == [s EXCEPT !.flows = Append(@,
                                 [id |-> id, protocol |-> p.protocol, srcIp |-> p.srcIp,
                                  srcPort |-> p.srcPort, dstIp |-> p.dstIp,
                                  dstPort |-> p.dstPort, bytes |-> p.bytes,
                                  packets |-> 1, firstSeen |-> ts, lastSeen |-> ts])]
                   IN IF p.dstPort \notin s2.seenDstPorts /\ p.dstPort # 0
                      THEN LET s3 == [s2 EXCEPT !.seenDstPorts = @ \cup {p.dstPort}]
                           IN IF ts - s3.lastPortsAlertAt > PORT_ALERT_GAP_MS
                              THEN PushAlert([s3 EXCEPT !.lastPortsAlertAt = ts], cl,
                                       MakeAlert("info", "New destination port observed",
                                           <<"Port ">> \o Digits(p.dstPort)
                                             \o <<" seen in ">> \o FlowKeyToString(p),
                                           ts))
                              ELSE s3
                      ELSE s2
    IN [s1 EXCEPT !.tickBytes = @ + p.bytes, !.tickPackets = @ + 1,
                  !.acc = AccAdd(@, p), !.ever = @ \cup {p.dstPort},
                 !.since = [bytes |-> @.bytes + p.bytes, packets |-> @.packets + 1]]

\* The generator's loop: onPacket for each sample of the burst, in order.
RECURSIVE DeliverBurst(_, _, _, _)
DeliverBurst(s, cl, burst, ts) ==
    IF burst = <<>> THEN s
    ELSE DeliverBurst(OnPacket(s, cl, Head(burst), ts), cl, Tail(burst), ts)


-----------------------------------------------------------------------------
(* RollingStats and the spike test *)

RollingWindowSize == Max(ROLLING_MIN_WINDOW, ROLLING_WINDOW)

RollingPush(values, v) ==
    LET w == Append(values, v)
    IN IF Len(w) > RollingWindowSize THEN Tail(w) ELSE w

\* n * sum(v^2) - (sum v)^2 = n * (n - 1) * variance
SpreadOf(values) == Len(values) * SumSq(values) - SumSeq(values) * SumSeq(values)

\* stdDev > 0
StdDevPositive(values) == Len(values) >= 2 /\ SpreadOf(values) > 0

\* (x - mean) / stdDev >= num / den, for stdDev > 0
ZAtLeast(values, x, num, den) ==
    LET n == Len(values)
        dev == n * x - SumSeq(values)
    IN /\ dev >= 0
       /\ GeProd(den * den * (n - 1) * dev, dev, num * num * n, SpreadOf(values))

\* mean.toFixed(0)
MeanRounded(values) ==
    IF values = <<>> THEN 0 ELSE RoundDiv(SumSeq(values), Len(values))

\* A plausible slip: the threshold 3 in place of 3.5.
IsSpikeThreshold3(seriesLen, values, bytesPerSec) ==
    /\ seriesLen > WARMUP_POINTS
    /\ StdDevPositive(values)
    /\ ZAtLeast(values, bytesPerSec, 3, 1)

\* A plausible slip: the threshold 4 in place of 3.5.
IsSpikeThreshold4(seriesLen, values, bytesPerSec) ==
    /\ seriesLen > WARMUP_POINTS
    /\ StdDevPositive(values)
    /\ ZAtLeast(values, bytesPerSec, 4, 1)

\* A plausible slip: the test rewritten as dev >= 3.5 * std, without std > 0.
IsSpikeNoStdGuard(seriesLen, values, bytesPerSec) ==
    /\ seriesLen > WARMUP_POINTS
    /\ ZAtLeast(values, bytesPerSec, 7, 2)

\* series.length > 10 && std > 0 && z >= 3.5
IsSpike(seriesLen, values, bytesPerSec) ==
    /\ seriesLen > WARMUP_POINTS
    /\ StdDevPositive(values)
    /\ ZAtLeast(values, bytesPerSec, 7, 2)

-----------------------------------------------------------------------------
(* The flow table's eviction and aggregates *)

\* A plausible slip: >= in place of >.
IsIdleInclusive(f, ts) == ts - f.lastSeen >= IDLE_MS

IsIdle(f, ts) == ts - f.lastSeen > IDLE_MS

\* A plausible slip: the idle flows counted but left in the table.
PruneFlowsKeepAll(fl, ts) == fl

\* pruneAndCountActiveFlows: the table after the loop; its length is the count returned.
PruneFlows(fl, ts) == SelectSeq(fl, LAMBDA f : ~IsIdle(f, ts))

PrunedFlows(fl, ts) == SelectSeq(fl, LAMBDA f : IsIdle(f, ts))

\* Array.prototype.sort((a, b) => b.bytes - a.bytes): stable, descending.
RECURSIVE InsertDesc(_, _)
InsertDesc(sorted, x) ==
    IF sorted = <<>> THEN <<x>>
    ELSE IF Head(sorted).bytes >= x.bytes
         THEN <<Head(sorted)>> \o InsertDesc(Tail(sorted), x)
         ELSE <<x>> \o sorted

RECURSIVE SortDesc(_)
SortDesc(s) ==
    IF s = <<>> THEN <<>>
    ELSE InsertDesc(SortDesc(SubSeq(s, 1, Len(s) - 1)), s[Len(s)])

\* A plausible slip: talkerBytes.set(f.srcIp, f.bytes), the earlier total lost.
RECURSIVE TalkerBytesLast(_)
TalkerBytesLast(fl) ==
    IF fl = <<>> THEN <<>>
    ELSE LET rest == TalkerBytesLast(SubSeq(fl, 1, Len(fl) - 1))
             f == fl[Len(fl)]
         IN IF \E i \in 1..Len(rest) : rest[i].ip = f.srcIp
            THEN [i \in 1..Len(rest) |->
                    IF rest[i].ip = f.srcIp
                    THEN [rest[i] EXCEPT !.bytes = f.bytes]
                    ELSE rest[i]]
            ELSE Append(rest, [ip |-> f.srcIp, bytes |-> f.bytes])

\* talkerBytes: one entry per source address, in order of first appearance.
RECURSIVE TalkerBytes(_)
TalkerBytes(fl) ==
    IF fl = <<>> THEN <<>>
    ELSE LET rest == TalkerBytes(SubSeq(fl, 1, Len(fl) - 1))
             f == fl[Len(fl)]
         IN IF \E i \in 1..Len(rest) : rest[i].ip = f.srcIp
            THEN [i \in 1..Len(rest) |->
                    IF rest[i].ip = f.srcIp
                    THEN [rest[i] EXCEPT !.bytes = @ + f.bytes]
                    ELSE rest[i]]
            ELSE Append(rest, [ip |-> f.srcIp, bytes |-> f.bytes])

FirstN(s, n) == SubSeq(s, 1, Min(n, Len(s)))

ComputeAggregates(fl) ==
    [uniqueDstIps |-> Cardinality({fl[i].dstIp : i \in 1..Len(fl)}),
     uniqueDstPorts |-> Cardinality({fl[i].dstPort : i \in 1..Len(fl)} \ {0}),
     topTalkers |-> FirstN(SortDesc(TalkerBytes(fl)), TOP_TALKERS),
     flows |-> FirstN(SortDesc(fl), TOP_FLOWS)]

\* A plausible slip: the modulo test one millisecond wide of the tick period.
AdaptersDueInclusive(ts) == ts % ADAPTERS_PERIOD_MS <= 1000

\* if (ts % 10_000 < 1000): the tick republishes the adapter list.
AdaptersDue(ts) == ts % ADAPTERS_PERIOD_MS < 1000

\* os.networkInterfaces(), sorted by name: outside the program.
Adapters == <<"eth0 10.0.0.5", "lo 127.0.0.1">>

AdapterNames == {"eth0 10.0.0.5", Undefined}

\* A plausible slip: the series trimmed one point too late.
SeriesPushLate(s, stats) ==
    LET w == Append(s, stats)
    IN IF Len(w) > SERIES_CAP + 1 THEN Tail(w) ELSE w

\* this.series.push(stats); if (this.series.length > 120) this.series.shift()
SeriesPush(s, stats) ==
    LET w == Append(s, stats)
    IN IF Len(w) > SERIES_CAP THEN Tail(w) ELSE w

\* A plausible slip: a snapshot without the alert list.
GetSnapshotNoAlerts(ts) ==
    LET agg == ComputeAggregates(flows)
    IN [ts |-> ts,
        adapters |-> Adapters,
        selectedAdapterName |-> selectedAdapterName,
        mode |-> mode,
        stats |-> IF series # <<>> THEN series[Len(series)]
                  ELSE [ts |-> ts, bytesPerSec |-> 0, packetsPerSec |-> 0,
                        activeFlows |-> 0, uniqueDstIps |-> agg.uniqueDstIps,
                        uniqueDstPorts |-> agg.uniqueDstPorts],
        series |-> series,
        topTalkers |-> agg.topTalkers,
        flows |-> agg.flows,
        alerts |-> <<>>]

\* getSnapshot()
GetSnapshot(ts) ==
    LET agg == ComputeAggregates(flows)
    IN [ts |-> ts,
        adapters |-> Adapters,
        selectedAdapterName |-> selectedAdapterName,
        mode |-> mode,
        stats |-> IF series # <<>> THEN series[Len(series)]
                  ELSE [ts |-> ts, bytesPerSec |-> 0, packetsPerSec |-> 0,
                        activeFlows |-> 0, uniqueDstIps |-> agg.uniqueDstIps,
                        uniqueDstPorts |-> agg.uniqueDstPorts],
        series |-> series,
        topTalkers |-> agg.topTalkers,
        flows |-> agg.flows,
        alerts |-> alerts]


-----------------------------------------------------------------------------
(* NetworkSampler *)

\* stop(): this.stopFn?.(); the generator's closure clears its running flag.
StoppedMechs ==
    IF stopFn # 0 THEN [mechs EXCEPT ![stopFn].running = FALSE] ELSE mechs

\* startSimulatedTraffic(options): the status callback, then the first
\* tick() of the generator, which runs inside the call.
StartSimulatedTraffic(s, cl, burst, ts) ==
    DeliverBurst(OnStatus(s, cl, "simulate", "Simulated traffic mode", ts), cl, burst, ts)

\* restart() up to its await: stop(), then either the generator or a
\* suspended capture attempt holding the options object it was given.
Restart(s, cl, opts, burst, ts) ==
    IF opts.mode = "simulate"
    THEN [srv |-> StartSimulatedTraffic(s, cl, burst, ts),
          mechs |-> Append(StoppedMechs, [kind |-> "sim", running |-> TRUE]),
          stopFn |-> Len(mechs) + 1,
          pending |-> pending]
    ELSE [srv |-> s, mechs |-> StoppedMechs, stopFn |-> 0,
          pending |-> Append(pending, opts)]

\* How one capture attempt can end.
Outcomes == {"ok", "noModule", "noDecoders", "openFailed"}

OutcomeMessage(o) ==
    CASE o = "ok" -> "Live capture using libpcap/Npcap"
      [] o = "noDecoders" -> "cap module loaded but missing decoders; falling back to simulation"
      [] o = "noModule" -> "Live capture unavailable; Cannot find package 'cap'"
      [] OTHER -> "Live capture unavailable; cap.open failed"

\* A plausible slip: a failed attempt falls back without a status message.
TryStartCapTrafficSilent(s, cl, o, ts) ==
    IF o = "ok" THEN OnStatus(s, cl, "cap", OutcomeMessage(o), ts) ELSE s

\* tryStartCapTraffic(options): its status callback; TRUE is returned for "ok".
TryStartCapTraffic(s, cl, o, ts) ==
    OnStatus(s, cl, IF o = "ok" THEN "cap" ELSE "simulate", OutcomeMessage(o), ts)

RemoveAt(s, i) == SubSeq(s, 1, i - 1) \o SubSeq(s, i + 1, Len(s))

\* restart() from its await on: the attempt's outcome, then the fallback.
\* On success the capture listener is attached and no stopFn is stored.
ResumeRestart(s, cl, o, burst, ts) ==
    LET s1 == TryStartCapTraffic(s, cl, o, ts)
    IN IF o = "ok"
       THEN [srv |-> s1,
             mechs |-> Append(mechs, [kind |-> "cap", running |-> TRUE]),
             stopFn |-> stopFn]
       ELSE [srv |-> StartSimulatedTraffic(s1, cl, burst, ts),
             mechs |-> Append(mechs, [kind |-> "sim", running |-> TRUE]),
             stopFn |-> Len(mechs) + 1]

-----------------------------------------------------------------------------
(* Client messages, after JSON.parse *)

NoMsg == [kind |-> "none", type |-> "", hasData |-> FALSE, mode |-> Undefined,
          adapterName |-> Undefined]

Msg(kind, type, hasData, m, a) ==
    [kind |-> kind, type |-> type, hasData |-> hasData, mode |-> m, adapterName |-> a]

\* kind: "notjson" (JSON.parse throws), "null" (the JSON text null), "prim"
\* (a number, string or boolean), "object".
AllMessages ==
    {Msg("notjson", "", FALSE, Undefined, Undefined),
     Msg("null", "", FALSE, Undefined, Undefined),
     Msg("prim", "", FALSE, Undefined, Undefined),
     Msg("object", "ping", FALSE, Undefined, Undefined),
     Msg("object", "bogus", FALSE, Undefined, Undefined),
     Msg("object", "setMode", FALSE, Undefined, Undefined),
     Msg("object", "setMode", TRUE, Undefined, Undefined),
     Msg("object", "setMode", TRUE, "bogus", Undefined),
     Msg("object", "setMode", TRUE, "live", Undefined),
     Msg("object", "setMode", TRUE, "simulate", Undefined),
     Msg("object", "setAdapter", FALSE, Undefined, Undefined),
     Msg("object", "setAdapter", TRUE, Undefined, Undefined),
     Msg("object", "setAdapter", TRUE, Undefined, "eth0 10.0.0.5")}

WellFormedCommands ==
    {m \in AllMessages :
        /\ m.kind = "object"
        /\ \/ m.type = "ping"
           \/ m.type = "setMode" /\ m.hasData /\ m.mode \in {"live", "simulate"}
           \/ m.type = "setAdapter" /\ m.hasData}

NoArg == [msg |-> NoMsg, mech |-> 0, outcome |-> "", ws |-> 0]


-----------------------------------------------------------------------------
(* Actions: one per handler *)

\* Writes back the part of the server a packet or an alert touches.
Commit(s) ==
    /\ flows' = s.flows
    /\ alerts' = s.alerts
    /\ seenDstPorts' = s.seenDstPorts
    /\ lastPortsAlertAt' = s.lastPortsAlertAt
    /\ tickBytes' = s.tickBytes
    /\ tickPackets' = s.tickPackets
    /\ acc' = s.acc
    /\ everPorts' = s.ever
    /\ sinceTick' = s.since

CommitSampler(r) ==
    /\ mechs' = r.mechs
    /\ stopFn' = r.stopFn
    /\ pending' = r.pending

\* Whether one more mechanism may be started or queued in this run.
Room == Len(mechs) + Len(pending) < MaxMechs

\* new TelemetryServer(port): the field initialisers, sampler.start() in
\* mode 'simulate' (status alert and first burst included), the tick timer.
Construct(simSamples) ==
    \E burst \in Bursts(simSamples) :
        LET s0 == [flows |-> <<>>, alerts |-> <<>>, seenDstPorts |-> {},
                   lastPortsAlertAt |-> 0, tickBytes |-> 0, tickPackets |-> 0,
                   acc |-> <<>>, ever |-> {},
                   since |-> [bytes |-> 0, packets |-> 0], out |-> <<>>,
                   status |-> <<>>]
            s == StartSimulatedTraffic(s0, {}, burst, T0)
        IN /\ clock = T0
           /\ clients = {}
           /\ mode = "simulate"
           /\ selectedAdapterName = Undefined
           /\ flows = s.flows
           /\ alerts = s.alerts
           /\ series = <<>>
           /\ bytesRolling = <<>>
           /\ lastTickAt = T0
           /\ tickBytes = s.tickBytes
           /\ tickPackets = s.tickPackets
           /\ seenDstPorts = s.seenDstPorts
           /\ lastPortsAlertAt = s.lastPortsAlertAt
           /\ ticker = TRUE
           /\ wssOpen = TRUE
           /\ options = [mode |-> "simulate", adapterName |-> Undefined]
           /\ stopFn = 1
           /\ mechs = <<[kind |-> "sim", running |-> TRUE]>>
           /\ pending = <<>>
           /\ lastOp = "construct"
           /\ lastArg = NoArg
           /\ sent = <<>>
           /\ threw = FALSE
           /\ statusCalls = s.status
           /\ pruned = <<>>
           /\ acc = s.acc
           /\ everPorts = s.ever
           /\ sinceTick = s.since
           /\ stale = {}
           /\ tickTimes = <<>>

\* Time passes to the next instant of the grid.
Advance(instants) ==
    /\ \E t \in instants :
          /\ t > clock
          /\ \A u \in instants : u > clock => t <= u
          /\ clock' = t
    /\ lastOp' = "advance"
    /\ lastArg' = NoArg
    /\ sent' = <<>>
    /\ threw' = FALSE
    /\ statusCalls' = <<>>
    /\ pruned' = <<>>
    /\ UNCHANGED <<serverVars, samplerVars, acc, everPorts, sinceTick, stale, tickTimes>>

\* onTick(), fired by setInterval(..., 1000).
OnTick ==
    /\ ticker
    /\ clock - lastTickAt >= TICK_MS
    /\ LET ts == clock
           dtSec == Max(1, RoundDiv(ts - lastTickAt, 1000))
           bytesPerSec == RoundDiv(tickBytes, dtSec)
           packetsPerSec == RoundDiv(tickPackets, dtSec)
           rolling == RollingPush(bytesRolling, bytesPerSec)
           kept == PruneFlows(flows, ts)
           gone == PrunedFlows(flows, ts)
           agg == ComputeAggregates(kept)
           stats == [ts |-> ts, bytesPerSec |-> bytesPerSec,
                     packetsPerSec |-> packetsPerSec, activeFlows |-> Len(kept),
                     uniqueDstIps |-> agg.uniqueDstIps,
                     uniqueDstPorts |-> agg.uniqueDstPorts]
           ser == SeriesPush(series, stats)
           s0 == [ServerNow EXCEPT !.flows = kept]
           s1 == IF IsSpike(Len(ser), rolling, bytesPerSec)
                 THEN PushAlert(s0, clients,
                          MakeAlert("warning", "Traffic spike detected",
                              <<"Bytes/sec ">> \o Digits(bytesPerSec) \o <<" mean=">>
                                 \o Digits(MeanRounded(rolling)),
                              ts))
                 ELSE s0
           goneKeys == {FlowKeyOf(gone[i]) : i \in 1..Len(gone)}
       IN /\ lastTickAt' = ts
          /\ bytesRolling' = rolling
          /\ flows' = kept
          /\ series' = ser
          /\ alerts' = s1.alerts
          /\ sent' = s1.out
                     \o Broadcast(clients, "stats", stats)
                     \o Broadcast(clients, "series", ser)
                     \o Broadcast(clients, "topTalkers", agg.topTalkers)
                     \o Broadcast(clients, "flows", agg.flows)
                     \o (IF AdaptersDue(ts)
                         THEN Broadcast(clients, "adapters", Adapters)
                         ELSE <<>>)
          /\ tickBytes' = 0
          /\ tickPackets' = 0
          /\ pruned' = gone
          /\ acc' = [k \in DOMAIN acc \ goneKeys |-> acc[k]]
          /\ tickTimes' = Append(tickTimes, ts)
          /\ sinceTick' = [bytes |-> 0, packets |-> 0]
    /\ lastOp' = "tick"
    /\ lastArg' = NoArg
    /\ threw' = FALSE
    /\ statusCalls' = <<>>
    /\ UNCHANGED <<clock, clients, mode, selectedAdapterName, seenDstPorts,
                   lastPortsAlertAt, ticker, wssOpen, samplerVars, everPorts,
                   stale>>

\* The generator's tick(), fired by its setTimeout: nothing once stopped.
GeneratorTick(simSamples) ==
    /\ tickPackets < MaxPerTick
    /\ \E m \in 1..Len(mechs), burst \in Bursts(simSamples) :
          /\ mechs[m].kind = "sim"
          /\ mechs[m].running
          /\ LET s == DeliverBurst(ServerNow, clients, burst, clock)
             IN Commit(s) /\ sent' = s.out
          /\ lastArg' = [NoArg EXCEPT !.mech = m]
    /\ lastOp' = "packet"
    /\ threw' = FALSE
    /\ statusCalls' = <<>>
    /\ pruned' = <<>>
    /\ UNCHANGED <<clock, clients, mode, selectedAdapterName, series, bytesRolling,
                   lastTickAt, ticker, wssOpen, samplerVars, stale, tickTimes>>

\* The capture listener cap.on('packet', ...) for a decodable IPv4 frame.
\* Nothing ever detaches it or closes the handle.
CapturePacket(capSamples) ==
    /\ tickPackets < MaxPerTick
    /\ \E m \in 1..Len(mechs), p \in capSamples :
          /\ mechs[m].kind = "cap"
          /\ mechs[m].running
          /\ LET s == OnPacket(ServerNow, clients, p, clock)
             IN Commit(s) /\ sent' = s.out
          /\ lastArg' = [NoArg EXCEPT !.mech = m]
    /\ lastOp' = "packet"
    /\ threw' = FALSE
    /\ statusCalls' = <<>>
    /\ pruned' = <<>>
    /\ UNCHANGED <<clock, clients, mode, selectedAdapterName, series, bytesRolling,
                   lastTickAt, ticker, wssOpen, samplerVars, stale, tickTimes>>

\* onConnection(ws), for the sockets that may connect.
OnConnection(sockets) ==
    /\ wssOpen
    /\ \E ws \in sockets \ clients :
          /\ clients' = clients \cup {ws}
          /\ sent' = Send(ws, "snapshot", GetSnapshot(clock))
          /\ lastArg' = [NoArg EXCEPT !.ws = ws]
    /\ lastOp' = "connect"
    /\ threw' = FALSE
    /\ statusCalls' = <<>>
    /\ pruned' = <<>>
    /\ UNCHANGED <<clock, mode, selectedAdapterName, flows, alerts, series,
                   bytesRolling, lastTickAt, tickBytes, tickPackets, seenDstPorts,
                   lastPortsAlertAt, ticker, wssOpen, samplerVars, acc, everPorts, sinceTick, stale,
                   tickTimes>>

\* ws.on('close', ...)
OnSocketClose ==
    /\ \E ws \in clients :
          /\ clients' = clients \ {ws}
          /\ lastArg' = [NoArg EXCEPT !.ws = ws]
    /\ lastOp' = "disconnect"
    /\ sent' = <<>>
    /\ threw' = FALSE
    /\ statusCalls' = <<>>
    /\ pruned' = <<>>
    /\ UNCHANGED <<clock, mode, selectedAdapterName, flows, alerts, series,
                   bytesRolling, lastTickAt, tickBytes, tickPackets, seenDstPorts,
                   lastPortsAlertAt, ticker, wssOpen, samplerVars, acc, everPorts, sinceTick, stale,
                   tickTimes>>


\* onClientMessage(ws, raw)
OnClientMessage(msgs, simSamples) ==
    /\ \E ws \in clients, msg \in msgs :
          /\ lastArg' = [NoArg EXCEPT !.ws = ws, !.msg = msg]
          /\ \/ \* JSON.parse throws, or there is no known type: return
                /\ \/ msg.kind \in {"notjson", "prim"}
                   \/ msg.kind = "object" /\ msg.type \notin {"setMode", "setAdapter"}
                /\ threw' = FALSE
                /\ sent' = <<>>
                /\ statusCalls' = <<>>
                /\ UNCHANGED <<serverVars, samplerVars, acc, everPorts, sinceTick, stale>>
             \/ \* msg.type of null, msg.data.mode or msg.data.adapterName of
                \* undefined: a TypeError leaves the handler
                /\ \/ msg.kind = "null"
                   \/ msg.kind = "object" /\ msg.type \in {"setMode", "setAdapter"}
                                          /\ ~msg.hasData
                /\ threw' = TRUE
                /\ sent' = <<>>
                /\ statusCalls' = <<>>
                /\ UNCHANGED <<serverVars, samplerVars, acc, everPorts, sinceTick, stale>>
             \/ \* setMode: this.mode, sampler.update({mode}), broadcast
                /\ msg.kind = "object" /\ msg.type = "setMode" /\ msg.hasData
                /\ Room
                /\ \E burst \in Bursts(simSamples) :
                      LET opts == [options EXCEPT !.mode = msg.mode]
                          r == Restart(ServerNow, clients, opts, burst, clock)
                      IN /\ mode' = msg.mode
                         /\ options' = opts
                         /\ CommitSampler(r)
                         /\ Commit(r.srv)
                         /\ statusCalls' = r.srv.status
                         /\ sent' = r.srv.out
                                    \o Broadcast(clients, "mode", [mode |-> msg.mode])
                /\ stale' = 1..Len(mechs)
                /\ threw' = FALSE
                /\ UNCHANGED <<clients, selectedAdapterName, series, bytesRolling,
                               lastTickAt, ticker, wssOpen>>
             \/ \* setAdapter: this.selectedAdapterName, sampler.update({adapterName}), broadcast
                /\ msg.kind = "object" /\ msg.type = "setAdapter" /\ msg.hasData
                /\ Room
                /\ \E burst \in Bursts(simSamples) :
                      LET opts == [options EXCEPT !.adapterName = msg.adapterName]
                          r == Restart(ServerNow, clients, opts, burst, clock)
                      IN /\ selectedAdapterName' = msg.adapterName
                         /\ options' = opts
                         /\ CommitSampler(r)
                         /\ Commit(r.srv)
                         /\ statusCalls' = r.srv.status
                         /\ sent' = r.srv.out
                                    \o Broadcast(clients, "selectedAdapter",
                                           [selectedAdapterName |-> msg.adapterName])
                /\ stale' = 1..Len(mechs)
                /\ threw' = FALSE
                /\ UNCHANGED <<clients, mode, series, bytesRolling, lastTickAt,
                               ticker, wssOpen>>
    /\ lastOp' = "message"
    /\ pruned' = <<>>
    /\ UNCHANGED <<clock, tickTimes>>

\* A suspended restart() resumes: the capture attempt ends with outcome o.
ResolveAttempt(outcomes, simSamples) ==
    /\ \E i \in 1..Len(pending), o \in outcomes, burst \in Bursts(simSamples) :
          LET r == ResumeRestart(ServerNow, clients, o, burst, clock)
          IN /\ mechs' = r.mechs
             /\ stopFn' = r.stopFn
             /\ pending' = RemoveAt(pending, i)
             /\ Commit(r.srv)
             /\ statusCalls' = r.srv.status
             /\ sent' = r.srv.out
             /\ lastArg' = [NoArg EXCEPT !.outcome = o, !.mech = Len(mechs) + 1]
    /\ lastOp' = "resume"
    /\ threw' = FALSE
    /\ pruned' = <<>>
    /\ UNCHANGED <<clock, clients, mode, selectedAdapterName, series, bytesRolling,
                   lastTickAt, ticker, wssOpen, options, stale, tickTimes>>

\* close(), called once from the shell's before-quit handler.
Close ==
    /\ wssOpen
    /\ ticker' = FALSE
    /\ mechs' = StoppedMechs
    /\ stopFn' = 0
    /\ clients' = {}
    /\ wssOpen' = FALSE
    /\ lastOp' = "close"
    /\ lastArg' = NoArg
    /\ sent' = <<>>
    /\ threw' = FALSE
    /\ statusCalls' = <<>>
    /\ pruned' = <<>>
    /\ UNCHANGED <<clock, mode, selectedAdapterName, flows, alerts, series,
                   bytesRolling, lastTickAt, tickBytes, tickPackets, seenDstPorts,
                   lastPortsAlertAt, options, pending, acc, everPorts, sinceTick, stale, tickTimes>>

-----------------------------------------------------------------------------
(* The main specification: the whole service over a few seconds, with       *)
(* well-formed client commands                                              *)

MainInstants == {T0 + TICK_MS * k : k \in 0..MainTicks}

MainSim == SimulatedSamples({Ip_10_0_0_10}, {Ip_1_1_1_1}, {443}, {20000}, {60})

MainCap == CapturedSamples({Ip_10_0_0_12}, {Ip_8_8_8_8}, {53}, {100})

Init == Construct(MainSim)

Next ==
    \/ Advance(MainInstants)
    \/ OnTick
    \/ GeneratorTick(MainSim)
    \/ CapturePacket(MainCap)
    \/ OnConnection(OneSocket)
    \/ OnSocketClose
    \/ OnClientMessage(WellFormedCommands, MainSim)
    \/ ResolveAttempt(Outcomes, MainSim)
    \/ Close

Spec == Init /\ [][Next]_vars

-----------------------------------------------------------------------------
(* The message specification: every kind of client message, on a host       *)
(* without the capture module                                               *)

InitMessages == Construct(MainSim)

NextMessages ==
    \/ Advance(MainInstants)
    \/ OnTick
    \/ GeneratorTick(MainSim)
    \/ OnConnection(OneSocket)
    \/ OnSocketClose
    \/ OnClientMessage(AllMessages, MainSim)
    \/ ResolveAttempt({"noModule"}, MainSim)

SpecMessages == InitMessages /\ [][NextMessages]_vars


------------------------------------------------------------------------------
(* The eviction specification: ingestion and ticks only, at instants around *)
(* the 60 s idle limit of a flow last seen at T0 + 1 s                      *)

PruneInstants ==
    {T0, T0 + TICK_MS}
    \cup {T0 + TICK_MS + IDLE_MS + d : d \in {-1, 0, 1}}

PruneSim ==
    SimulatedSamples({Ip_10_0_0_10}, {Ip_1_1_1_1}, {443}, {20000, 20001}, {60})

InitPrune == Construct(PruneSim)

NextPrune ==
    \/ Advance(PruneInstants)
    \/ OnTick
    \/ GeneratorTick(PruneSim)

SpecPrune == InitPrune /\ [][NextPrune]_vars

------------------------------------------------------------------------------
(* The removal specification: every handler of the server but close(), with *)
(* an instant at which the flows of construction are over the idle limit    *)

RemovalInstants == {T0, T0 + IDLE_MS + 1}

RemovalMessages ==
    {m \in WellFormedCommands : m.type = "ping" \/ m.mode = "simulate"}

InitRemoval == Construct(PruneSim)

NextRemoval ==
    \/ Advance(RemovalInstants)
    \/ OnTick
    \/ GeneratorTick(PruneSim)
    \/ OnConnection(OneSocket)
    \/ OnSocketClose
    \/ OnClientMessage(RemovalMessages, PruneSim)

SpecRemoval == InitRemoval /\ [][NextRemoval]_vars

-----------------------------------------------------------------------------
(* The series specification: one tick per second for more than 120 seconds, *)
(* with traffic only at the start                                           *)

SeriesInstants == {T0 + TICK_MS * k : k \in 0..SeriesTicks}

SeriesSim == SimulatedSamples({Ip_10_0_0_10}, {Ip_1_1_1_1}, {443}, {20000}, {60})

GeneratorTickEarly ==
    /\ Len(tickTimes) < SeriesTrafficTicks
    /\ GeneratorTick(SeriesSim)

\* The timer fires on time: a due tick runs before the next instant.
AdvanceOnTime(instants) ==
    /\ ~(ticker /\ clock - lastTickAt >= TICK_MS)
    /\ Advance(instants)

InitSeries == Construct(SeriesSim)

NextSeries ==
    \/ AdvanceOnTime(SeriesInstants)
    \/ OnTick
    \/ GeneratorTickEarly
    \/ OnConnection(OneSocket)
    \/ OnSocketClose

SpecSeries == InitSeries /\ [][NextSeries]_vars

-----------------------------------------------------------------------------
(* The spike specification: ten ticks 100 s apart, then ticks 1 s apart,    *)
(* with the generator delivering 1000-byte samples in every interval        *)

SPIKE_SLOW_MS == 100 * TICK_MS

SpikeInstants ==
    {T0 + SPIKE_SLOW_MS * k : k \in 0..WARMUP_POINTS}
    \cup {T0 + SPIKE_SLOW_MS * WARMUP_POINTS + TICK_MS * k :
             k \in 1..(SpikeTicks - WARMUP_POINTS)}

SpikeSim == SimulatedSamples({Ip_10_0_0_10}, {Ip_1_1_1_1}, {443}, {20000}, {1000})

\* The generator fires every 120..260 ms, so no tick interval is without a
\* burst; here it is one burst per interval, and the timer fires on time.
AdvanceBusy ==
    /\ tickPackets > 0
    /\ ~(ticker /\ clock - lastTickAt >= TICK_MS)
    /\ Advance(SpikeInstants)

GeneratorTickOnce ==
    /\ tickPackets = 0
    /\ GeneratorTick(SpikeSim)

InitSpike == Construct(SpikeSim)

NextSpike ==
    \/ AdvanceBusy
    \/ OnTick
    \/ GeneratorTickOnce
    \/ OnConnection(OneSocket)
    \/ OnSocketClose

SpecSpike == InitSpike /\ [][NextSpike]_vars


-----------------------------------------------------------------------------
(* The flow-table specification: ingestion and ticks only, one second and   *)
(* then more than the idle limit apart, with samples of two sizes for each  *)
(* of two FlowKeys                                                          *)

FlowInstants ==
    {T0, T0 + TICK_MS, T0 + TICK_MS + IDLE_MS + 1}

FlowSim ==
    SimulatedSamples({Ip_10_0_0_10}, {Ip_1_1_1_1}, {443}, {20000, 20001}, {60, 1400})

InitFlows == Construct(FlowSim)

NextFlows ==
    \/ Advance(FlowInstants)
    \/ OnTick
    \/ GeneratorTick(FlowSim)

SpecFlows == InitFlows /\ [][NextFlows]_vars

-----------------------------------------------------------------------------
(* The alert-list specification: live capture of a port scan, one new       *)
(* destination port every 10.001 s, for more instants than the alert list   *)
(* holds entries                                                            *)

ScanInstants == {T0 + (PORT_ALERT_GAP_MS + 1) * k : k \in 0..ALERTS_CAP}

ScanSim == SimulatedSamples({Ip_10_0_0_10}, {Ip_1_1_1_1}, {443}, {20000}, {60})

\* The next frame of the scan: TCP to the lowest port above 1024 not yet seen.
ScanFrame ==
    {p \in CapturedSamples({Ip_10_0_0_12}, {Ip_8_8_8_8},
                           {1024 + Cardinality(seenDstPorts)}, {100}) :
        p.protocol = "TCP"}

LiveCommand == {m \in WellFormedCommands : m.mode = "live"}

\* The viewer switches to live capture right after the start.
OnClientMessageAtStart ==
    /\ clock = T0
    /\ OnClientMessage(LiveCommand, ScanSim)

\* One frame of the scan per tick interval, after the interval's tick.
CapturePacketScan ==
    /\ tickPackets = 0
    /\ ~(ticker /\ clock - lastTickAt >= TICK_MS)
    /\ CapturePacket(ScanFrame)

\* The timer fires on time, the capture attempt ends within its instant, and
\* no interval of the capture is without a frame.
AdvanceScan ==
    /\ pending = <<>>
    /\ (\E m \in 1..Len(mechs) : mechs[m].kind = "cap") => tickPackets > 0
    /\ AdvanceOnTime(ScanInstants)

InitScan == Construct(ScanSim)

NextScan ==
    \/ AdvanceScan
    \/ OnTick
    \/ CapturePacketScan
    \/ OnConnection(OneSocket)
    \/ OnSocketClose
    \/ OnClientMessageAtStart
    \/ ResolveAttempt({"ok"}, ScanSim)

SpecScan == InitScan /\ [][NextScan]_vars

-----------------------------------------------------------------------------
(* The alarm specification: fourteen ticks 100 s apart with one burst each  *)
(* (1 B/s every time), then three ticks 1 s apart with or without a burst   *)

ALARM_QUIET_TICKS == WARMUP_POINTS + 4

AlarmInstants ==
    {T0 + SPIKE_SLOW_MS * k : k \in 0..ALARM_QUIET_TICKS}
    \cup {T0 + SPIKE_SLOW_MS * ALARM_QUIET_TICKS + TICK_MS * k : k \in 1..3}

AlarmSim == SimulatedSamples({Ip_10_0_0_10}, {Ip_1_1_1_1}, {443}, {20000}, {60})

\* The timer fires on time; each of the long intervals has its burst.
AdvanceAlarm ==
    /\ Len(tickTimes) < ALARM_QUIET_TICKS => tickPackets > 0
    /\ AdvanceOnTime(AlarmInstants)

\* At most one burst per tick interval.
GeneratorTickAlarm ==
    /\ tickPackets = 0
    /\ GeneratorTick(AlarmSim)

InitAlarm == Construct(AlarmSim)

NextAlarm ==
    \/ AdvanceAlarm
    \/ OnTick
    \/ GeneratorTickAlarm
    \/ OnConnection(OneSocket)
    \/ OnSocketClose

SpecAlarm == InitAlarm /\ [][NextAlarm]_vars

-----------------------------------------------------------------------------
(* The talkers specification: live capture of frames from up to ten more    *)
(* source addresses, one frame per second, after a 500-byte first burst     *)

TalkerInstants == {T0 + TICK_MS * k : k \in 0..(TOP_TALKERS + 3)}

TalkerSim == SimulatedSamples({Ip_10_0_0_10}, {Ip_1_1_1_1}, {443}, {20000}, {500})

\* 10.0.1.k
TalkerIp(k) == <<"1", "0", ".", "0", ".", "1", ".">> \o Digits(k)

\* The frame that makes flow k + 1 of the table: from a new address with
\* 900 or 100 bytes (100 from the third frame on), or, as the third frame,
\* 100 more bytes from the generator's address, on a new port.
TalkerFrames ==
    LET k == Len(flows)
        fresh == CapturedSamples({TalkerIp(k)}, {Ip_8_8_8_8}, {2000 + k},
                                 IF k <= 2 THEN {100, 900} ELSE {100})
        again == IF k = 3
                 THEN CapturedSamples({Ip_10_0_0_10}, {Ip_8_8_8_8}, {2000 + k}, {100})
                 ELSE {}
    IN {p \in fresh \cup again : p.protocol = "UDP"}

\* One frame per tick interval, after the interval's tick.
CapturePacketTalker ==
    /\ tickPackets = 0
    /\ ~(ticker /\ clock - lastTickAt >= TICK_MS)
    /\ CapturePacket(TalkerFrames)

\* The timer fires on time, the capture attempt ends within its instant, and
\* no interval of the capture is without a frame.
AdvanceTalkers ==
    /\ pending = <<>>
    /\ (\E m \in 1..Len(mechs) : mechs[m].kind = "cap") => tickPackets > 0
    /\ AdvanceOnTime(TalkerInstants)

InitTalkers == Construct(TalkerSim)

NextTalkers ==
    \/ AdvanceTalkers
    \/ OnTick
    \/ CapturePacketTalker
    \/ OnConnection(OneSocket)
    \/ OnSocketClose
    \/ OnClientMessageAtStart
    \/ ResolveAttempt({"ok"}, TalkerSim)

SpecTalkers == InitTalkers /\ [][NextTalkers]_vars

-----------------------------------------------------------------------------
(* The sessions specification: two viewers, mode commands, ticks and        *)
(* packets over one second; a capture attempt opens a device or finds no    *)
(* capture module                                                            *)

ModeCommands == {m \in WellFormedCommands : m.type = "setMode"}

SessionInstants == {T0, T0 + TICK_MS}

\* One burst of the generator per tick interval.
GeneratorTickSessions ==
    /\ tickPackets = 0
    /\ GeneratorTick(MainSim)

InitSessions == Construct(MainSim)

NextSessions ==
    \/ Advance(SessionInstants)
    \/ OnTick
    \/ GeneratorTickSessions
    \/ OnConnection(TwoSockets)
    \/ OnSocketClose
    \/ OnClientMessage(ModeCommands, MainSim)
    \/ ResolveAttempt({"ok", "noModule"}, MainSim)

SpecSessions == InitSessions /\ [][NextSessions]_vars

-----------------------------------------------------------------------------
(* The fallback specification: two viewers ask for live capture on a host   *)
(* where every capture attempt fails; the awaited import of the capture     *)
(* module settles, so a suspended restart is resumed                        *)

FailedOutcomes == Outcomes \ {"ok"}

FallbackInstants == {T0, T0 + TICK_MS}

GeneratorTickFallback ==
    /\ tickPackets = 0
    /\ GeneratorTick(MainSim)

ResolveFailedAttempt == ResolveAttempt(FailedOutcomes, MainSim)

InitFallback == Construct(MainSim)

NextFallback ==
    \/ Advance(FallbackInstants)
    \/ OnTick
    \/ GeneratorTickFallback
    \/ OnConnection(TwoSockets)
    \/ OnSocketClose
    \/ OnClientMessage(LiveCommand, MainSim)
    \/ ResolveFailedAttempt

\* The awaited import of the capture module settles: the step of
\* ResolveFailedAttempt, told by what it does to pending and lastOp.
AttemptSettles ==
    /\ \E i \in 1..Len(pending) : pending' = RemoveAt(pending, i)
    /\ lastOp' = "resume"

SpecFallback ==
    InitFallback /\ [][NextFallback]_vars /\ WF_pending(AttemptSettles)

-----------------------------------------------------------------------------
(* The failing-write specification: a sound viewer and one whose socket     *)
(* throws on every write, with ticks, packets and commands                  *)

BrokenInstants == {T0, T0 + TICK_MS}

BrokenCommands ==
    {m \in WellFormedCommands : m.type = "setAdapter" \/ m.mode = "simulate"}

GeneratorTickBroken ==
    /\ tickPackets = 0
    /\ GeneratorTick(MainSim)

InitBroken == Construct(MainSim)

NextBroken ==
    \/ Advance(BrokenInstants)
    \/ OnTick
    \/ GeneratorTickBroken
    \/ OnConnection(SoundAndBroken)
    \/ OnSocketClose
    \/ OnClientMessage(BrokenCommands, MainSim)

SpecBroken == InitBroken /\ [][NextBroken]_vars

-----------------------------------------------------------------------------
(* The new-port specification: live capture with frames to new ports, to    *)
(* ports seen before and without ports, at instants inside the 10 s window  *)
(* of the last notification, at exactly 10 s, 1 ms later, and after every   *)
(* flow has been idle for more than 60 s                                    *)

PortInstants ==
    {T0, T0 + TICK_MS,
     T0 + PORT_ALERT_GAP_MS, T0 + PORT_ALERT_GAP_MS + 1,
     T0 + 2 * PORT_ALERT_GAP_MS + 1, T0 + 2 * PORT_ALERT_GAP_MS + 2,
     T0 + 2 * PORT_ALERT_GAP_MS + IDLE_MS + 3}

\* A frame to the next port never ingested, to the one before it, or of a
\* protocol without ports.
PortFrames ==
    {p \in CapturedSamples({Ip_10_0_0_12}, {Ip_8_8_8_8},
                           {1024 + Cardinality(everPorts),
                            1023 + Cardinality(everPorts)}, {100}) :
        p.protocol \in {"TCP", "OTHER"}}

\* At most one frame per tick interval, after the interval's tick.
CapturePacketPorts ==
    /\ tickPackets = 0
    /\ ~(ticker /\ clock - lastTickAt >= TICK_MS)
    /\ CapturePacket(PortFrames)

\* The timer fires on time and the capture is attached within the first instant.
AdvancePorts ==
    /\ pending = <<>>
    /\ \E m \in 1..Len(mechs) : mechs[m].kind = "cap"
    /\ AdvanceOnTime(PortInstants)

\* The one switch to live capture.
OnClientMessagePorts ==
    /\ pending = <<>>
    /\ \A m \in 1..Len(mechs) : mechs[m].kind # "cap"
    /\ OnClientMessageAtStart

InitPorts == Construct(ScanSim)

NextPorts ==
    \/ AdvancePorts
    \/ OnTick
    \/ CapturePacketPorts
    \/ OnConnection(OneSocket)
    \/ OnClientMessagePorts
    \/ ResolveAttempt({"ok"}, ScanSim)

SpecPorts == InitPorts /\ [][NextPorts]_vars

-----------------------------------------------------------------------------
(* The rate specification: ticks that are on time or late by 0.5 s, 1.5 s   *)
(* and more, with bursts of 61-byte samples in between                      *)

RateInstants == {T0, T0 + TICK_MS, T0 + 2 * TICK_MS + 500, T0 + 5 * TICK_MS}

RateSim == SimulatedSamples({Ip_10_0_0_10}, {Ip_1_1_1_1}, {443}, {20000}, {61})

InitRate == Construct(RateSim)

NextRate ==
    \/ Advance(RateInstants)
    \/ OnTick
    \/ GeneratorTick(RateSim)
    \/ OnConnection(OneSocket)

SpecRate == InitRate /\ [][NextRate]_vars

-----------------------------------------------------------------------------
(* The publishing specification: the ticks of the alarm specification with  *)
(* two viewers                                                              *)

InitPublish == Construct(AlarmSim)

NextPublish ==
    \/ AdvanceAlarm
    \/ OnTick
    \/ GeneratorTickAlarm
    \/ OnConnection(TwoSockets)

SpecPublish == InitPublish /\ [][NextPublish]_vars

-----------------------------------------------------------------------------
(* The adapters specification: three schedules of the tick timer, each      *)
(* interval 1000 ms plus a drift of 0, 1 or 111 ms                          *)

ADAPTER_DRIFT_MS == 111

\* The tick times that follow start when the intervals are 1000 ms plus the
\* drifts.
RECURSIVE TickTimesFrom(_, _)
TickTimesFrom(start, drifts) ==
    IF drifts = <<>> THEN <<>>
    ELSE <<start + TICK_MS + Head(drifts)>>
            \o TickTimesFrom(start + TICK_MS + Head(drifts), Tail(drifts))

Drifts(n, d) == [i \in 1..n |-> d]

\* No drift; nine late intervals from the start, then one of 1 ms; ten
\* intervals on time, nine late ones, then one of 1 ms.
TickSchedules ==
    {TickTimesFrom(T0, Drifts(21, 0)),
     TickTimesFrom(T0, Drifts(9, ADAPTER_DRIFT_MS) \o <<0, 1>> \o Drifts(9, 0)),
     TickTimesFrom(T0, Drifts(10, 0) \o Drifts(9, ADAPTER_DRIFT_MS) \o <<1>>
                          \o Drifts(10, 0))}

\* The timer fires at the next time of a schedule that the ticks so far follow.
AdvanceAdapters ==
    /\ ~(ticker /\ clock - lastTickAt >= TICK_MS)
    /\ \E sch \in TickSchedules :
          /\ Len(tickTimes) < Len(sch)
          /\ SubSeq(sch, 1, Len(tickTimes)) = tickTimes
          /\ Advance({sch[Len(tickTimes) + 1]})

InitAdapters == Construct(MainSim)

NextAdapters ==
    \/ AdvanceAdapters
    \/ OnTick
    \/ OnConnection(OneSocket)
    \/ OnSocketClose

SpecAdapters == InitAdapters /\ [][NextAdapters]_vars

-----------------------------------------------------------------------------
(* Claims *)

FlowsOfKey(k) == {i \in 1..Len(flows) : FlowKeyOf(flows[i]) = k}

\* C1: with no eviction in between, the samples of one FlowKey are held in
\* exactly one Flow record, whose bytes is the sum of their bytes and whose
\* packets is their count; no record holds samples of two FlowKeys (there
\* are exactly as many records as FlowKeys ingested since their eviction).
C1_FlowAggregation ==
    /\ \A k \in DOMAIN acc :
          /\ Cardinality(FlowsOfKey(k)) = 1
          /\ \A i \in FlowsOfKey(k) :
                /\ flows[i].bytes = acc[k].bytes
                /\ flows[i].packets = acc[k].packets
    /\ Len(flows) = Cardinality(DOMAIN acc)

\* Two FlowKeys in the table, one of them with samples of both sizes.
C1_Witness ==
    /\ Len(flows) >= 2
    /\ \E k \in DOMAIN acc : acc[k].packets >= 2 /\ acc[k].bytes = 60 + 1400

\* C2: once a restart has begun, no sample of a mechanism that was started
\* before it is delivered to onPacket.
C2_NoStaleDelivery ==
    (lastOp = "packet") => (lastArg.mech \notin stale)

\* C3: after close() has called stop(), the generator is cancelled and the
\* capture handle released: no mechanism is left running.
C3_StopSilences ==
    (~wssOpen) => (\A m \in 1..Len(mechs) : ~mechs[m].running)

\* C4: a client message that is not a well-formed command is dropped: the
\* server and sampler state are unchanged, nothing is sent, no error leaves
\* the handler, the session stays registered.
C4_MalformedDropped ==
    [][(lastOp' = "message" /\ lastArg'.msg \notin WellFormedCommands)
          => (/\ UNCHANGED <<serverVars, samplerVars>>
              /\ sent' = <<>>
              /\ ~threw')]_vars

TenThenThousand == <<10, 10, 10, 10, 10, 10, 10, 10, 10, 10, 1000>>

SpikeAlertAt(ts) ==
    \E i \in 1..Len(alerts) :
        alerts[i].title = "Traffic spike detected" /\ alerts[i].ts = ts

\* C5 as stated: on the tick that makes the window ten 10s and then 1000, a
\* spike alert is emitted.
C5_SpikeEmitted ==
    (lastOp = "tick" /\ bytesRolling = TenThenThousand /\ Len(series) > WARMUP_POINTS)
        => SpikeAlertAt(lastTickAt)

\* C5 as amended: on the tick that makes the window ten 10s and then 1000,
\* the z-score of 1000 is below 3.5 (it is 10 / sqrt(11), about 3.02) and no
\* spike alert is emitted or broadcast.
C5_NoSpikeEmitted ==
    (lastOp = "tick" /\ bytesRolling = TenThenThousand /\ Len(series) > WARMUP_POINTS)
        => /\ ~SpikeAlertAt(lastTickAt)
           /\ \A i \in 1..Len(sent) : sent[i].type # "alerts"

\* The eleventh tick has run with a viewer connected: ten points of 10 B/s, then 1000 B/s.
C5_Witness ==
    /\ lastOp = "tick"
    /\ bytesRolling = TenThenThousand
    /\ Len(series) = WARMUP_POINTS + 1
    /\ series[Len(series)].bytesPerSec = 1000
    /\ clients # {}

\* C6: a failed capture attempt surfaces exactly one status message and
\* leaves the fallback generator running.
C6_OneStatusPerFailure ==
    (lastOp = "resume" /\ lastArg.outcome # "ok")
        => /\ Len(statusCalls) = 1
           /\ mechs[lastArg.mech].kind = "sim"
           /\ mechs[lastArg.mech].running

\* C7: after close() no tick runs, no sample reaches onPacket, the session
\* set stays empty and nothing is sent.
C7_CloseTotal ==
    [][(~wssOpen)
          => (/\ lastOp' \notin {"tick", "packet"}
              /\ UNCHANGED <<flows, tickBytes, tickPackets>>
              /\ clients' = {}
              /\ sent' = <<>>)]_vars

\* C8: a tick keeps exactly the flows whose idle time at the tick's
\* timestamp is at most 60,000 ms.
C8_PruneBoundary ==
    [][(lastOp' = "tick")
          => (\A i \in 1..Len(flows) :
                 (clock' - flows[i].lastSeen <= IDLE_MS)
                     <=> (\E j \in 1..Len(flows') : flows'[j] = flows[i]))]_vars

\* A tick that kept a flow idle for exactly 60,000 ms and removed an older one.
C8_Witness ==
    /\ lastOp = "tick"
    /\ \E i \in 1..Len(flows) : clock - flows[i].lastSeen = IDLE_MS
    /\ \E i \in 1..Len(pruned) : clock - pruned[i].lastSeen > IDLE_MS

\* C9: only the tick handler removes a flow from the table.
C9_OnlyTickRemoves ==
    [][(\E i \in 1..Len(flows) :
           \A j \in 1..Len(flows') : flows'[j].id # flows[i].id)
          => (lastOp' = "tick")]_vars

\* A handler other than the tick has run while a flow over the idle limit is
\* in the table, and the flow is still there.
C9_Witness ==
    /\ lastOp \in {"packet", "message", "connect", "disconnect"}
    /\ \E i \in 1..Len(flows) : clock - flows[i].lastSeen > IDLE_MS

\* C10: the series holds the newest min(n, 120) of the n points produced so
\* far, in tick order.
C10_SeriesWindow ==
    LET n == Len(tickTimes)
        m == Min(n, SERIES_CAP)
    IN /\ Len(series) <= SERIES_CAP
       /\ Len(series) = m
       /\ \A i \in 1..m : series[i].ts = tickTimes[n - m + i]
       /\ \A i \in 1..(m - 1) : series[i].ts < series[i + 1].ts

\* 121 ticks: the first point is gone, the other 120 remain.
C10_Witness ==
    /\ Len(tickTimes) = SERIES_CAP + 1
    /\ Len(series) = SERIES_CAP
    /\ series[1].ts = tickTimes[2]
    /\ series[SERIES_CAP].ts = tickTimes[SERIES_CAP + 1]

\* C11: the alert list never holds more than 100 entries and is newest-first
\* by insertion: a step that changes it puts the new alerts in front of the
\* old ones, which keep their order, and drops only from the old end, and
\* only as many as the list would otherwise exceed 100 by.
C11_AlertsWindow ==
    [][/\ Len(alerts) <= ALERTS_CAP
       /\ Len(alerts') <= ALERTS_CAP
       /\ (alerts' # alerts) =>
             \E k \in 1..Len(alerts') :
                 /\ Len(alerts') = Min(ALERTS_CAP, Len(alerts) + k)
                 /\ \A i \in (k + 1)..Len(alerts') : alerts'[i] = alerts[i - k]
                 /\ \A i \in 1..k : \A j \in 1..Len(alerts) : alerts'[i].id # alerts[j].id
                 /\ \A i \in 1..k : alerts'[i].ts = clock]_vars

\* The list is full and the alerts of construction have been dropped from
\* its old end by the alerts of the scan.
C11_Witness ==
    /\ Len(alerts) = ALERTS_CAP
    /\ lastOp = "packet"
    /\ alerts[1].ts = clock
    /\ \A i \in 1..Len(alerts) : alerts[i].ts > T0

\* An alert with the fields of the generator's status alert at time ts is in the list.
HasSimStatusAlert(ts) ==
    \E i \in 1..Len(alerts) :
        /\ alerts[i].ts = ts
        /\ alerts[i].severity = "info"
        /\ alerts[i].title = "Capture status"
        /\ alerts[i].detail = <<"SIMULATE", ": ", "Simulated traffic mode">>

\* C12: a command that restarts the generator in the millisecond of an
\* earlier start pushes a status alert with the ts, severity, title and
\* detail of one already in the list; when the restart's burst brings no new
\* port, the list is unchanged and no alerts message is written.
C12_DuplicateIsNoOp ==
    [][(/\ lastOp' = "message"
        /\ Len(statusCalls') = 1
        /\ statusCalls'[1].message = "Simulated traffic mode"
        /\ HasSimStatusAlert(clock)
        /\ seenDstPorts' = seenDstPorts)
          => (/\ alerts' = alerts
              /\ \A i \in 1..Len(sent') : sent'[i].type # "alerts")]_vars

\* A viewer's setMode simulate has restarted the generator in the
\* millisecond of construction, whose status alert is in the list.
C12_Witness ==
    /\ lastOp = "message"
    /\ Len(statusCalls) = 1
    /\ clock = T0
    /\ clients # {}
    /\ HasSimStatusAlert(T0)
    /\ Len(sent) > 0

\* z >= 3.5 for the newest value of the window, on integers:
\* 4 (n - 1) (n x - S)^2 >= 49 n (n sum(v^2) - S^2), with n x >= S.
NewestZAtLeast35 ==
    LET n == Len(bytesRolling)
        x == bytesRolling[n]
        S == SumSeq(bytesRolling)
        Q == SumSq(bytesRolling)
    IN /\ n * x >= S
       /\ 4 * (n - 1) * (n * x - S) * (n * x - S) >= 49 * n * (n * Q - S * S)

NewestStdDevPositive ==
    LET n == Len(bytesRolling)
    IN n >= 2 /\ n * SumSq(bytesRolling) > SumSeq(bytesRolling) * SumSeq(bytesRolling)

\* C13: a tick emits a spike alert exactly when at least 10 points were
\* produced before it, the window's stdDev is positive and z >= 3.5; the
\* alert is a warning at the head of the list, written to every session; no
\* tick of the warm-up emits one.
C13_SpikeTest ==
    (lastOp = "tick")
        => /\ SpikeAlertAt(lastTickAt)
                <=> (/\ Len(tickTimes) - 1 >= WARMUP_POINTS
                     /\ NewestStdDevPositive
                     /\ NewestZAtLeast35)
           /\ SpikeAlertAt(lastTickAt)
                => /\ alerts[1].title = "Traffic spike detected"
                   /\ alerts[1].severity = "warning"
                   /\ alerts[1].ts = lastTickAt
                   /\ \A ws \in clients : \E i \in 1..Len(sent) :
                         sent[i].to = ws /\ sent[i].type = "alerts" /\ sent[i].data = alerts
           /\ \A i \in 1..Len(alerts) :
                 alerts[i].title = "Traffic spike detected"
                     => \E k \in (WARMUP_POINTS + 1)..Len(tickTimes) : tickTimes[k] = alerts[i].ts

\* A tick with a viewer connected has emitted a spike alert.
C13_Witness ==
    /\ lastOp = "tick"
    /\ SpikeAlertAt(lastTickAt)
    /\ clients # {}

\* A tick past the warm-up with a positive stdDev and z below 3.5.
C13_WitnessBelow ==
    /\ lastOp = "tick"
    /\ Len(tickTimes) > WARMUP_POINTS
    /\ NewestStdDevPositive
    /\ ~NewestZAtLeast35

\* C14: while every tick so far has produced the same bytesPerSec, there is
\* no spike alert.
C14_ConstantNoSpike ==
    (/\ Len(series) = Len(tickTimes)
     /\ \A i, j \in 1..Len(series) : series[i].bytesPerSec = series[j].bytesPerSec)
        => \A i \in 1..Len(alerts) : alerts[i].title # "Traffic spike detected"

\* Fourteen ticks, past the warm-up, all with the same bytesPerSec.
C14_Witness ==
    /\ lastOp = "tick"
    /\ Len(series) = ALARM_QUIET_TICKS
    /\ Len(series) = Len(tickTimes)
    /\ \A i, j \in 1..Len(series) : series[i].bytesPerSec = series[j].bytesPerSec

\* The cumulative bytes of the flows of the table that come from ip.
RECURSIVE BytesFrom(_, _)
BytesFrom(ip, n) ==
    IF n = 0 THEN 0
    ELSE BytesFrom(ip, n - 1) + (IF flows[n].srcIp = ip THEN flows[n].bytes ELSE 0)

SourceIps == {flows[i].srcIp : i \in 1..Len(flows)}

\* C15: the topTalkers message of a tick lists source addresses of the
\* table, each once, each with the sum of the bytes of its flows, in
\* descending order of bytes, the 8 largest when there are more than 8.
C15_TopTalkers ==
    \A m \in 1..Len(sent) :
        (lastOp = "tick" /\ sent[m].type = "topTalkers")
            => LET tt == sent[m].data
               IN /\ Len(tt) = Min(TOP_TALKERS, Cardinality(SourceIps))
                  /\ \A i \in 1..Len(tt) :
                        /\ tt[i].ip \in SourceIps
                        /\ tt[i].bytes = BytesFrom(tt[i].ip, Len(flows))
                  /\ \A i, j \in 1..Len(tt) :
                        i < j => tt[i].ip # tt[j].ip /\ tt[i].bytes >= tt[j].bytes
                  /\ \A ip \in SourceIps :
                        (\A i \in 1..Len(tt) : tt[i].ip # ip)
                            => \A i \in 1..Len(tt) : tt[i].bytes >= BytesFrom(ip, Len(flows))

\* The totals {A: 500, B: 900, C: 100} published as [B: 900, A: 500, C: 100].
C15_Witness ==
    /\ lastOp = "tick"
    /\ \E m \in 1..Len(sent) :
          /\ sent[m].type = "topTalkers"
          /\ sent[m].data = <<[ip |-> TalkerIp(1), bytes |-> 900],
                              [ip |-> Ip_10_0_0_10, bytes |-> 500],
                              [ip |-> TalkerIp(2), bytes |-> 100]>>

\* Ten source addresses in the table, one of them with two flows, and a list of eight.
C15_WitnessTruncated ==
    /\ lastOp = "tick"
    /\ Cardinality(SourceIps) > TOP_TALKERS
    /\ Len(flows) > Cardinality(SourceIps)
    /\ \E m \in 1..Len(sent) : sent[m].type = "topTalkers" /\ Len(sent[m].data) = TOP_TALKERS

\* C16: what a tick publishes is computed from the table as its prune left
\* it: activeFlows is the number of flows in the table, no flow of the table
\* is idle for more than 60,000 ms at the tick's timestamp, and uniqueDstIps,
\* uniqueDstPorts, the topTalkers message and the flows message are those of
\* the table, with nothing of the flows the tick removed.
C16_PruneBeforeAggregates ==
    (lastOp = "tick")
        => LET stats == series[Len(series)]
           IN /\ stats.ts = lastTickAt
              /\ stats.activeFlows = Len(flows)
              /\ \A i \in 1..Len(flows) : lastTickAt - flows[i].lastSeen <= IDLE_MS
              /\ \A i \in 1..Len(pruned) : lastTickAt - pruned[i].lastSeen > IDLE_MS
              /\ stats.uniqueDstIps = Cardinality({flows[i].dstIp : i \in 1..Len(flows)})
              /\ stats.uniqueDstPorts
                    = Cardinality({flows[i].dstPort : i \in 1..Len(flows)} \ {0})
              /\ \A m \in 1..Len(sent) :
                    /\ sent[m].type = "stats" => sent[m].data = stats
                    /\ sent[m].type = "flows"
                          => /\ Len(sent[m].data) = Min(TOP_FLOWS, Len(flows))
                             /\ \A i \in 1..Len(sent[m].data) :
                                   /\ sent[m].data[i] \in Range(flows)
                                   /\ \A j \in 1..Len(pruned) :
                                         sent[m].data[i].id # pruned[j].id
                    /\ sent[m].type = "topTalkers"
                          => \A i \in 1..Len(sent[m].data) :
                                /\ sent[m].data[i].ip \in SourceIps
                                /\ sent[m].data[i].bytes
                                      = BytesFrom(sent[m].data[i].ip, Len(flows))

\* A tick with a viewer connected removed an idle flow and kept a fresh one
\* of the same source address.
C16_Witness ==
    /\ lastOp = "tick"
    /\ clients # {}
    /\ pruned # <<>>
    /\ \E i \in 1..Len(flows) : flows[i].srcIp = pruned[1].srcIp

\* C17: a message is written to a socket that is not yet a registered
\* session only by onConnection, which registers it and writes it exactly
\* one message, a snapshot of the state at that time with all its parts;
\* every other message goes to a session registered before, and is no
\* snapshot.
C17_SnapshotFirst ==
    [][/\ \A m \in 1..Len(sent') :
             LET ws == sent'[m].to
             IN IF ws \in clients
                THEN sent'[m].type # "snapshot"
                ELSE /\ lastOp' = "connect"
                     /\ lastArg'.ws = ws
                     /\ Len(sent') = 1
       /\ (lastOp' = "connect")
             => /\ Len(sent') = 1
                /\ sent'[1].to = lastArg'.ws
                /\ sent'[1].to \in clients' \ clients
                /\ sent'[1].type = "snapshot"
                /\ LET d == sent'[1].data
                   IN /\ d.ts = clock
                      /\ d.mode = mode
                      /\ d.selectedAdapterName = selectedAdapterName
                      /\ d.series = series
                      /\ d.stats = IF series # <<>> THEN series[Len(series)]
                                   ELSE [ts |-> clock, bytesPerSec |-> 0,
                                         packetsPerSec |-> 0, activeFlows |-> 0,
                                         uniqueDstIps |-> Cardinality({flows[i].dstIp : i \in 1..Len(flows)}),
                                         uniqueDstPorts |-> Cardinality({flows[i].dstPort : i \in 1..Len(flows)} \ {0})]
                      /\ d.alerts = alerts
                      /\ d.adapters = Adapters
                      /\ Range(d.flows) = Range(flows)
                      /\ {d.topTalkers[i].ip : i \in 1..Len(d.topTalkers)} = SourceIps]_vars

\* A second viewer connects while the first is registered, after a command
\* and a tick have changed the state, and is written the snapshot.
C17_Witness ==
    /\ lastOp = "connect"
    /\ lastArg.ws = 2
    /\ clients = TwoSockets
    /\ sent[1].type = "snapshot"
    /\ sent[1].data.mode = "live"
    /\ sent[1].data.series # <<>>
    /\ Len(sent[1].data.alerts) >= 3

\* The messages of the last handler to ws, in order.
SentTo(ws) == SelectSeq(sent, LAMBDA m : m.to = ws)

\* C18: a setMode command sets the server mode and the sampler's mode to the
\* requested one and restarts the capture source (the old generator stopped;
\* a new generator for simulate, a capture attempt for live); the last
\* message of the handler to every registered session is the mode message
\* with the new mode, and it is the handler's only mode message to it.
C18_SetModeBroadcast ==
    [][(lastOp' = "message" /\ lastArg'.msg \in ModeCommands)
          => LET req == lastArg'.msg.mode
             IN /\ mode' = req
                /\ options'.mode = req
                /\ stopFn # 0 => ~mechs'[stopFn].running
                /\ req = "simulate"
                      => /\ Len(mechs') = Len(mechs) + 1
                         /\ mechs'[Len(mechs')] = [kind |-> "sim", running |-> TRUE]
                         /\ stopFn' = Len(mechs')
                         /\ pending' = pending
                /\ req = "live"
                      => /\ pending' = Append(pending, options')
                         /\ stopFn' = 0
                /\ clients' = clients
                /\ \A ws \in clients :
                      LET msgs == SelectSeq(sent', LAMBDA m : m.to = ws)
                      IN /\ msgs # <<>>
                         /\ msgs[Len(msgs)].type = "mode"
                         /\ msgs[Len(msgs)].data.mode = req
                         /\ \A i \in 1..(Len(msgs) - 1) : msgs[i].type # "mode"]_vars

\* With two sessions registered, one has sent setMode and the other has
\* been written the mode message.
C18_Witness ==
    /\ lastOp = "message"
    /\ lastArg.msg \in ModeCommands
    /\ clients = TwoSockets
    /\ \E ws \in clients :
          /\ ws # lastArg.ws
          /\ SentTo(ws) # <<>>
          /\ SentTo(ws)[Len(SentTo(ws))].type = "mode"
          /\ SentTo(ws)[Len(SentTo(ws))].data.mode = mode

\* An info alert of the status callback that names the fallback of a failed
\* capture attempt.
IsFallbackAlert(a) ==
    /\ a.severity = "info"
    /\ a.title = "Capture status"
    /\ \E o \in FailedOutcomes : a.detail = <<"SIMULATE", ": ", OutcomeMessage(o)>>

\* A setMode live command has just been handled at instant t.
LiveRequestedAt(t) ==
    /\ lastOp = "message"
    /\ lastArg.msg \in LiveCommand
    /\ clock = t

\* The step puts a fallback alert into the list that was not in it.
AddsFallbackAlert ==
    \E i \in 1..Len(alerts') :
        /\ IsFallbackAlert(alerts'[i])
        /\ \A j \in 1..Len(alerts) : alerts[j].id # alerts'[i].id

\* The fallback alerts in the list (none is evicted below ALERTS_CAP).
NumFallbackAlerts ==
    Cardinality({i \in 1..Len(alerts) : IsFallbackAlert(alerts[i])})

\* C19 as stated: every setMode live, on a host without a capture
\* mechanism, is followed by the addition of a fallback alert to the list.
C19_AlertAddedPerCommand ==
    \A t \in FallbackInstants, n \in 0..MaxMechs :
        (LiveRequestedAt(t) /\ NumFallbackAlerts = n) ~> (NumFallbackAlerts > n)

\* C19, amended: a setMode live on a host without a capture mechanism sets
\* the mode to live and writes mode{live} to every session; the resumed
\* attempt leaves the mode alone; a step that adds a fallback alert writes
\* the alert list, that alert first, to every session; and after the command
\* the list eventually holds a fallback alert stamped no earlier than the
\* command (added before the command when an attempt with the same outcome
\* failed earlier in the same millisecond).
C19_FallbackAlert ==
    /\ [][/\ (lastOp' = "message" /\ lastArg'.msg \in LiveCommand)
               => /\ mode' = "live"
                  /\ \A ws \in clients :
                        \E m \in 1..Len(sent') :
                            /\ sent'[m].to = ws
                            /\ sent'[m].type = "mode"
                            /\ sent'[m].data.mode = "live"
          /\ (lastOp' = "resume") => mode' = mode
          /\ AddsFallbackAlert
               => /\ lastOp' = "resume"
                  /\ \A ws \in clients :
                        \E m \in 1..Len(sent') :
                            /\ sent'[m].to = ws
                            /\ sent'[m].type = "alerts"
                            /\ IsFallbackAlert(sent'[m].data[1])
                            /\ sent'[m].data[1].ts = clock]_vars
    /\ \A t \in FallbackInstants :
          LiveRequestedAt(t)
             ~> (\E i \in 1..Len(alerts) :
                    IsFallbackAlert(alerts[i]) /\ alerts[i].ts >= t)

\* With two sessions registered and the mode live, a failed attempt has been
\* resumed and its fallback alert has been written to both.
C19_Witness ==
    /\ lastOp = "resume"
    /\ lastArg.outcome \in FailedOutcomes
    /\ mode = "live"
    /\ clients = TwoSockets
    /\ \A ws \in clients :
          \E m \in 1..Len(sent) :
              /\ sent[m].to = ws
              /\ sent[m].type = "alerts"
              /\ IsFallbackAlert(sent[m].data[1])

\* The types of the messages of the step to ws, in order.
TypesTo(ws, out) ==
    LET msgs == SelectSeq(out, LAMBDA m : m.to = ws)
    IN [i \in 1..Len(msgs) |-> msgs[i].type]

\* C20: with a session registered whose socket throws on every write, no
\* handler throws, and every sound session is written all the messages of
\* the handler: its snapshot on connect; stats, series, topTalkers and flows
\* (in that order) on every tick; the mode or selectedAdapter message of a
\* command; and the alert list whenever an alert is added. The failing
\* session stays registered until it closes.
C20_BestEffortSend ==
    [][/\ threw' = FALSE
       /\ lastOp' # "disconnect" => clients \subseteq clients'
       /\ \A ws \in clients' \ BrokenSockets :
             LET types == TypesTo(ws, sent')
                 msgs == SelectSeq(sent', LAMBDA m : m.to = ws)
             IN /\ (lastOp' = "connect" /\ lastArg'.ws = ws)
                      => types = <<"snapshot">>
                /\ (lastOp' = "tick")
                      => /\ SelectSeq(types, LAMBDA x : x \in {"stats", "series", "topTalkers", "flows"})
                               = <<"stats", "series", "topTalkers", "flows">>
                         /\ \E m \in 1..Len(msgs) :
                               msgs[m].type = "series" /\ msgs[m].data = series'
                /\ (lastOp' = "message" /\ lastArg'.msg.type = "setMode")
                      => /\ types # <<>>
                         /\ types[Len(types)] = "mode"
                         /\ msgs[Len(msgs)].data.mode = mode'
                /\ (lastOp' = "message" /\ lastArg'.msg.type = "setAdapter")
                      => /\ types # <<>>
                         /\ types[Len(types)] = "selectedAdapter"
                /\ (alerts' # alerts /\ ws \in clients)
                      => \E m \in 1..Len(msgs) :
                            msgs[m].type = "alerts" /\ msgs[m].data = alerts']_vars

\* A tick has run with the sound and the failing session both registered,
\* and the sound one has been written the tick's last message.
C20_Witness ==
    /\ lastOp = "tick"
    /\ clients = SoundAndBroken
    /\ TypesTo(1, sent) # <<>>
    /\ TypesTo(1, sent)[Len(TypesTo(1, sent))] = "flows"
    /\ ~threw

\* The sample of a step that ingests exactly one: the FlowKey whose count of
\* ingested samples grows by one.
IngestedKey ==
    CHOOSE k \in DOMAIN acc' :
        acc'[k].packets = (IF k \in DOMAIN acc THEN acc[k].packets ELSE 0) + 1

IsPortAlert(a) == a.title = "New destination port observed"

\* The step puts a new-port alert into the list that was not in it.
NotifiesPort ==
    \E i \in 1..Len(alerts') :
        /\ IsPortAlert(alerts'[i])
        /\ \A j \in 1..Len(alerts) : alerts[j].id # alerts'[i].id

\* The time of the latest new-port notification in the list, 0 when none.
PreviousNotificationAt ==
    LET at == {alerts[i].ts : i \in {j \in 1..Len(alerts) : IsPortAlert(alerts[j])}}
    IN IF at = {} THEN 0 ELSE CHOOSE x \in at : \A y \in at : y <= x

\* C21 as stated: the first-ever sample of a nonzero destination port is
\* notified if and only if at least 10,000 ms have passed since the
\* previous notification.
C21_NotifiedAtGap ==
    [][(lastOp' = "packet" /\ tickPackets' = tickPackets + 1)
          => (NotifiesPort
                <=> /\ IngestedKey.dstPort # 0
                    /\ IngestedKey.dstPort \notin everPorts
                    /\ \/ PreviousNotificationAt = 0
                       \/ clock - PreviousNotificationAt >= PORT_ALERT_GAP_MS)]_vars

\* C21, amended: the first-ever sample of a nonzero destination port is
\* notified, by one info alert that names the port, is stamped with the
\* time of the sample and is written to every session, if and only if more
\* than 10,000 ms have passed since the previous notification for any port;
\* a sample without a destination port (port 0), a sample of a port ingested
\* before, and a step that ingests nothing are never notified.
C21_NotifiedAfterGap ==
    [][/\ NotifiesPort => lastOp' = "packet"
       /\ (lastOp' = "packet" /\ tickPackets' = tickPackets + 1)
             => /\ NotifiesPort
                     <=> /\ IngestedKey.dstPort # 0
                         /\ IngestedKey.dstPort \notin everPorts
                         /\ \/ PreviousNotificationAt = 0
                            \/ clock - PreviousNotificationAt > PORT_ALERT_GAP_MS
                /\ NotifiesPort
                     => /\ Len(alerts') = Len(alerts) + 1
                        /\ alerts'[1].severity = "info"
                        /\ alerts'[1].ts = clock
                        /\ SubSeq(alerts'[1].detail, 1, 1 + Len(Digits(IngestedKey.dstPort)))
                              = <<"Port ">> \o Digits(IngestedKey.dstPort)
                        /\ \A ws \in clients :
                              \E m \in 1..Len(sent') :
                                  /\ sent'[m].to = ws
                                  /\ sent'[m].type = "alerts"
                                  /\ sent'[m].data = alerts']_vars

\* A new port has been notified 10,001 ms after the previous notification,
\* itself not the first, with a port in between that was not notified.
C21_Witness ==
    /\ lastOp = "packet"
    /\ IsPortAlert(alerts[1])
    /\ alerts[1].ts = clock
    /\ IsPortAlert(alerts[2])
    /\ alerts[2].ts = clock - PORT_ALERT_GAP_MS - 1
    /\ alerts[2].ts > T0
    /\ Cardinality(seenDstPorts)
          > Cardinality({i \in 1..Len(alerts) : IsPortAlert(alerts[i])})

\* The port named by a new-port alert: the digits between "Port " and
\* " seen in ".
AlertPort(a) ==
    LET k == CHOOSE i \in 1..Len(a.detail) : a.detail[i] = " seen in "
    IN SubSeq(a.detail, 2, k - 1)

\* C27: the ports recorded as seen are exactly the nonzero destination
\* ports ever ingested, notified or not; a sample of a port ingested before
\* is never notified and leaves the record alone, whether or not its flow is
\* still in the table; and no two new-port alerts name the same port.
C27_SeenOnFirstObservation ==
    [][/\ seenDstPorts = everPorts \ {0}
       /\ seenDstPorts' = everPorts' \ {0}
       /\ (lastOp' = "packet" /\ tickPackets' = tickPackets + 1)
             => /\ IngestedKey.dstPort # 0 => IngestedKey.dstPort \in seenDstPorts'
                /\ IngestedKey.dstPort \in everPorts
                      => ~NotifiesPort /\ seenDstPorts' = seenDstPorts
       /\ \A i, j \in 1..Len(alerts') :
             (i # j /\ IsPortAlert(alerts'[i]) /\ IsPortAlert(alerts'[j]))
                => AlertPort(alerts'[i]) # AlertPort(alerts'[j])]_vars

\* A sample of a port first seen inside the rate-limit window has just been
\* ingested again, more than 10 s after the last notification and after its
\* flow was evicted: the flow is new, and still no alert names the port.
C27_Witness ==
    /\ lastOp = "packet"
    /\ clock - PreviousNotificationAt > PORT_ALERT_GAP_MS
    /\ PreviousNotificationAt > T0
    /\ \E i \in 1..Len(flows) :
          /\ flows[i].firstSeen = clock
          /\ flows[i].dstPort \in seenDstPorts
          /\ \A j \in 1..Len(alerts) :
                IsPortAlert(alerts[j]) => AlertPort(alerts[j]) # Digits(flows[i].dstPort)

\* q = round(a / b) for a >= 0 and b > 0, halves up: b q <= a + b/2 < b (q + 1).
IsRounded(q, a, b) == 2 * b * q <= 2 * a + b /\ 2 * a + b < 2 * b * (q + 1)

\* The time of the previous tick, or of construction before the first tick.
PreviousTickAt == IF tickTimes = <<>> THEN T0 ELSE tickTimes[Len(tickTimes)]

RaisesSpike ==
    /\ alerts' # alerts
    /\ alerts'[1].title = "Traffic spike detected"
    /\ alerts'[1].ts = clock

\* C23: a tick writes to every registered session, and to no one else, one
\* stats, one series, one topTalkers and one flows message, in that order;
\* before them one alerts message, with the new list, exactly when the tick
\* raises a spike alert; after them at most the adapters message. The series
\* message is the series after the tick, whose last element is the point of
\* the stats message, stamped with the time of the tick.
C23_TickMessages ==
    [][(lastOp' = "tick")
          => /\ \A m \in 1..Len(sent') : sent'[m].to \in clients
             /\ \A ws \in clients :
                   LET msgs == SelectSeq(sent', LAMBDA m : m.to = ws)
                       types == TypesTo(ws, sent')
                       first == IF RaisesSpike THEN 1 ELSE 0
                   IN /\ Len(types) \in {first + 4, first + 5}
                      /\ RaisesSpike => types[1] = "alerts" /\ msgs[1].data = alerts'
                      /\ SubSeq(types, first + 1, first + 4)
                            = <<"stats", "series", "topTalkers", "flows">>
                      /\ Len(types) = first + 5 => types[first + 5] = "adapters"
                      /\ msgs[first + 2].data = series'
                      /\ msgs[first + 1].data = series'[Len(series')]
                      /\ msgs[first + 1].data.ts = clock]_vars

\* A tick has raised a spike alert with two sessions registered.
C23_Witness ==
    /\ lastOp = "tick"
    /\ clients = TwoSockets
    /\ SpikeAlertAt(lastTickAt)
    /\ TypesTo(2, sent)[1] = "alerts"

\* The tick at time t republishes the adapter list (C24_AdaptersOnModulo
\* ties this to the messages written).
Republishes(t) == t % 10000 < 1000

\* C24 as stated: every 10-second interval that starts at a tick and is
\* covered by the ticks so far contains exactly one republishing tick.
C24_OncePerTenSeconds ==
    \A i \in 1..Len(tickTimes) :
        (tickTimes[Len(tickTimes)] >= tickTimes[i] + 10000)
           => Cardinality({j \in 1..Len(tickTimes) :
                              /\ tickTimes[j] >= tickTimes[i]
                              /\ tickTimes[j] < tickTimes[i] + 10000
                              /\ Republishes(tickTimes[j])}) = 1

\* C24, amended: a tick writes the adapter list, once and as its last
\* message, to every session exactly when its timestamp modulo 10,000 is
\* below 1000; among any ten consecutive ticks that are exactly 1000 ms
\* apart exactly one does.
C24_AdaptersOnModulo ==
    [][(lastOp' = "tick")
          => /\ \A ws \in clients :
                   LET types == TypesTo(ws, sent')
                       n == Cardinality({i \in 1..Len(types) : types[i] = "adapters"})
                   IN /\ n = IF Republishes(clock) THEN 1 ELSE 0
                      /\ n = 1 => types[Len(types)] = "adapters"
             /\ \A i \in 1..(Len(tickTimes') - 9) :
                   (\A j \in i..(i + 8) : tickTimes'[j + 1] - tickTimes'[j] = 1000)
                      => Cardinality({j \in i..(i + 9) : Republishes(tickTimes'[j])}) = 1]_vars

\* Ten ticks exactly 1000 ms apart have run, and the latest has written the
\* adapter list to the registered session.
C24_Witness ==
    /\ lastOp = "tick"
    /\ Len(tickTimes) >= 10
    /\ \A j \in (Len(tickTimes) - 9)..(Len(tickTimes) - 1) :
          tickTimes[j + 1] - tickTimes[j] = 1000
    /\ clients # {}
    /\ \E m \in 1..Len(sent) : sent[m].type = "adapters"

\* A tick has written the adapter list 9,001 ms after the previous tick
\* that did: two in one 10-second interval.
C24_WitnessTwo ==
    /\ lastOp = "tick"
    /\ clients # {}
    /\ \E m \in 1..Len(sent) : sent[m].type = "adapters"
    /\ \E i \in 1..(Len(tickTimes) - 1) :
          /\ Republishes(tickTimes[i])
          /\ clock - tickTimes[i] < 10000

\* Ticks have run for more than 10 s since the latest one that wrote the
\* adapter list: none in a 10-second interval.
C24_WitnessNone ==
    /\ lastOp = "tick"
    /\ \E i \in 1..Len(tickTimes) :
          /\ Republishes(tickTimes[i])
          /\ clock - tickTimes[i] > 11000
          /\ \A j \in (i + 1)..Len(tickTimes) : ~Republishes(tickTimes[j])

\* The mechanisms that deliver samples.
RunningMechs == {m \in 1..Len(mechs) : mechs[m].running}

\* C25: at most one mechanism delivers samples at any time, and after a
\* stop() (that of close(), or that of a restart that has not yet started
\* its mechanism) none does.
C25_SingleMechanism ==
    /\ Cardinality(RunningMechs) <= 1
    /\ (~wssOpen) => RunningMechs = {}
    /\ (lastOp = "message" /\ lastArg.msg \in LiveCommand /\ ~threw)
          => RunningMechs = {}

Modes == {"live", "simulate"}

\* C26: the server's mode is 'live' or 'simulate' in every state, and so is
\* the mode carried by every snapshot and mode message.
C26_ModeInRange ==
    /\ mode \in Modes
    /\ \A m \in 1..Len(sent) :
          sent[m].type \in {"snapshot", "mode"} => sent[m].data.mode \in Modes


=============================================================================
